---- MODULE Spec2Model ----
(***************************************************************************)
(* Model of sound2osc.                                                     *)
(*                                                                         *)
(* TriggerFilter (sound2osc/trigger/TriggerFilter): the on-delay /         *)
(* off-delay / max-hold state machine that sits between a trigger detector *)
(* and the OSC sender.  The filter is driven by triggerOn() / triggerOff() *)
(* calls and by three single-shot QTimers (Spec, FairSpec, SpecMute).      *)
(*                                                                         *)
(* Sound2OscEngine (sound2osc/core/Sound2OscEngine): start() / stop(), the *)
(* repeating FFT and BPM timers and the six trigger detectors that an FFT  *)
(* tick runs (SpecEngine); toState() / fromState() on preset documents     *)
(* (SpecPreset); a preset applied between ticks (SpecApply); the two       *)
(* repeating timers in Qt's timer list (SpecTimers); the order in which    *)
(* the filters of one FFT tick send (SpecOrder).                           *)
(*                                                                         *)
(* The sample ring (SpecRing), the send queue (SpecQueue) and the OSC      *)
(* packet writer and parser (SpecOsc).                                     *)
(*                                                                         *)
(* JsonConfigStore (sound2osc/config/JsonConfigStore): getValue() /        *)
(* setValue(), load() and the steps of save() on the config file           *)
(* (SpecStore); its methods called by two threads under m_mutex            *)
(* (SpecLock).                                                             *)
(*                                                                         *)
(* SettingsMigration over application starts (SpecMigration) and           *)
(* PresetManager's savePresetFile() and autosave (SpecManager).            *)
(*                                                                         *)
(* The engine's timer slots with stop() called from the event loop and     *)
(* from the signal handler of the headless application (SpecShutdown);     *)
(* start() on a running engine whose settings changed (SpecRestart).       *)
(*                                                                         *)
(* Time is counted in whole milliseconds, the resolution of QTimer.  The   *)
(* configured delays are reals in seconds in the program; here they are    *)
(* multiples of 1/SubMs of a millisecond, so that the conversion           *)
(* static_cast<int>(delay * 1000) truncates as it does in the program.     *)
(***************************************************************************)
EXTENDS Integers, Naturals, Sequences, FiniteSets, TLC

\* ------------------------------------------------------------------ bounds
\* delay steps per millisecond (resolution of the configured delays)
SubMs == 2
\* largest configured delay, in delay steps
MaxDelay == 4
\* largest number of on signals of one run
MaxSignals == 2

\* largest level of a spectrum band and largest threshold of a detector;
\* the program's levels and thresholds are reals in [0, 1], here k/MaxLevel
MaxLevel == 1

Delays == 0..MaxDelay

Levels == 0..MaxLevel

\* ------------------------------------------------------------- QTimer
\* value of a timer that is not running; a running single-shot timer holds
\* the milliseconds left until its timeout (0: the timeout is due)
Stopped == -1

\* QTimer::isActive()
isActive(t) == t # Stopped

\* the conversion as it would be if a timer were never started with less
\* than one millisecond
ToTimerMs_atLeastOneMs(d) == IF d \div SubMs = 0 THEN 1 ELSE d \div SubMs

\* static_cast<int>(delay * 1000): seconds to whole milliseconds, truncating
ToTimerMs(d) == d \div SubMs

\* one millisecond passes on a timer
Elapse(t) == IF t > 0 THEN t - 1 ELSE t

\* ------------------------------------------------------- TriggerFilter
\* The object after construction and configuration.  onMessage/offMessage
\* say whether TriggerOscParameters holds a non-empty on / off message.
\* onSignalSent/offSignalSent count the emitted Qt signals, oscOnSent and
\* oscOffSent the calls of OSCNetworkManager::sendMessage.
TriggerFilter(mute, onDelay, offDelay, maxHold, onMsg, offMsg) ==
    [ m_mute           |-> mute,
      m_onDelay        |-> onDelay,
      m_offDelay       |-> offDelay,
      m_maxHold        |-> maxHold,
      m_outputIsActive |-> FALSE,
      m_onDelayTimer   |-> Stopped,
      m_maxHoldTimer   |-> Stopped,
      m_offDelayTimer  |-> Stopped,
      onMessage        |-> onMsg,
      offMessage       |-> offMsg,
      onSignalSent     |-> 0,
      offSignalSent    |-> 0,
      oscOnSent        |-> 0,
      oscOffSent       |-> 0,
      qassertFailed    |-> FALSE ]

\* triggerOn() as it would be if a call while the output is active extended
\* the hold by restarting the max-hold timer
triggerOn_restartsMaxHold(f) ==
    LET g == [f EXCEPT !.m_offDelayTimer = Stopped]
    IN  IF g.m_outputIsActive
        THEN (IF isActive(g.m_maxHoldTimer)
              THEN [g EXCEPT !.m_maxHoldTimer = ToTimerMs(g.m_maxHold)] ELSE g)
        ELSE IF isActive(g.m_onDelayTimer) THEN g
        ELSE [g EXCEPT !.m_onDelayTimer = ToTimerMs(g.m_onDelay)]

\* triggerOn() without "if (m_outputIsActive) return"
triggerOn_noActiveGuard(f) ==
    LET g == [f EXCEPT !.m_offDelayTimer = Stopped]
    IN  IF isActive(g.m_onDelayTimer) THEN g
        ELSE [g EXCEPT !.m_onDelayTimer = ToTimerMs(g.m_onDelay)]

\* triggerOn() without "m_offDelayTimer.stop()"
triggerOn_keepsOffTimer(f) ==
    IF f.m_outputIsActive THEN f
    ELSE IF isActive(f.m_onDelayTimer) THEN f
    ELSE [f EXCEPT !.m_onDelayTimer = ToTimerMs(f.m_onDelay)]

\* triggerOn() without "if (m_onDelayTimer.isActive()) return": every call
\* restarts the on-delay
triggerOn_restartsOnDelay(f) ==
    LET g == [f EXCEPT !.m_offDelayTimer = Stopped]
    IN  IF g.m_outputIsActive THEN g
        ELSE [g EXCEPT !.m_onDelayTimer = ToTimerMs(g.m_onDelay)]

triggerOn(f) ==
    LET g == [f EXCEPT !.m_offDelayTimer = Stopped]
    IN  IF g.m_outputIsActive THEN g
        ELSE IF isActive(g.m_onDelayTimer) THEN g
        ELSE [g EXCEPT !.m_onDelayTimer = ToTimerMs(g.m_onDelay)]

\* triggerOff() without "if (!m_outputIsActive) return"
triggerOff_noActiveGuard(f) ==
    LET g == [f EXCEPT !.m_onDelayTimer = Stopped]
    IN  IF isActive(g.m_offDelayTimer) THEN g
        ELSE [g EXCEPT !.m_offDelayTimer = ToTimerMs(g.m_offDelay)]

\* triggerOff() without "if (m_offDelayTimer.isActive()) return": every call
\* restarts the off-delay
triggerOff_restartsOffDelay(f) ==
    LET g == [f EXCEPT !.m_onDelayTimer = Stopped]
    IN  IF ~g.m_outputIsActive THEN g
        ELSE [g EXCEPT !.m_offDelayTimer = ToTimerMs(g.m_offDelay)]

\* triggerOff() without "m_onDelayTimer.stop()"
triggerOff_keepsOnTimer(f) ==
    IF ~f.m_outputIsActive THEN f
    ELSE IF isActive(f.m_offDelayTimer) THEN f
    ELSE [f EXCEPT !.m_offDelayTimer = ToTimerMs(f.m_offDelay)]

triggerOff(f) ==
    LET g == [f EXCEPT !.m_onDelayTimer = Stopped]
    IN  IF ~g.m_outputIsActive THEN g
        ELSE IF isActive(g.m_offDelayTimer) THEN g
        ELSE [g EXCEPT !.m_offDelayTimer = ToTimerMs(g.m_offDelay)]

sendOnSignal(f) ==
    LET g == IF f.onMessage /\ ~f.m_mute
             THEN [f EXCEPT !.oscOnSent = @ + 1] ELSE f
    IN  [g EXCEPT !.onSignalSent = @ + 1]

\* sendOffSignal() returning early when muted, before "emit offSignalSent()"
sendOffSignal_muteSkipsSignal(f) ==
    IF f.m_mute THEN f
    ELSE LET g == IF f.offMessage
                  THEN [f EXCEPT !.oscOffSent = @ + 1] ELSE f
         IN  [g EXCEPT !.offSignalSent = @ + 1]

sendOffSignal(f) ==
    LET g == IF f.offMessage /\ ~f.m_mute
             THEN [f EXCEPT !.oscOffSent = @ + 1] ELSE f
    IN  [g EXCEPT !.offSignalSent = @ + 1]

\* onOnDelayEnd() that sends the on signal again when it starts the max-hold
\* timer
onOnDelayEnd_sendsTwice(f) ==
    LET a == [f EXCEPT !.m_onDelayTimer = Stopped,
                       !.qassertFailed = @ \/ f.m_outputIsActive]
        b == sendOnSignal([a EXCEPT !.m_outputIsActive = TRUE])
    IN  IF b.m_maxHold > 0
        THEN sendOnSignal([b EXCEPT !.m_maxHoldTimer = ToTimerMs(b.m_maxHold)])
        ELSE b

\* onOnDelayEnd() without "if (m_maxHold > 0) m_maxHoldTimer.start(...)"
onOnDelayEnd_noMaxHold(f) ==
    LET a == [f EXCEPT !.m_onDelayTimer = Stopped,
                       !.qassertFailed = @ \/ f.m_outputIsActive]
    IN  sendOnSignal([a EXCEPT !.m_outputIsActive = TRUE])

\* onOnDelayEnd() without "m_outputIsActive = true"
onOnDelayEnd_staysInactive(f) ==
    LET a == [f EXCEPT !.m_onDelayTimer = Stopped,
                       !.qassertFailed = @ \/ f.m_outputIsActive]
        b == sendOnSignal(a)
    IN  IF b.m_maxHold > 0
        THEN [b EXCEPT !.m_maxHoldTimer = ToTimerMs(b.m_maxHold)]
        ELSE b

\* slot of m_onDelayTimer's timeout (the single-shot timer has stopped)
onOnDelayEnd(f) ==
    LET a == [f EXCEPT !.m_onDelayTimer = Stopped,
                       !.qassertFailed = @ \/ f.m_outputIsActive]
        b == sendOnSignal([a EXCEPT !.m_outputIsActive = TRUE])
    IN  IF b.m_maxHold > 0
        THEN [b EXCEPT !.m_maxHoldTimer = ToTimerMs(b.m_maxHold)]
        ELSE b

\* onMaxHoldEnd() without "m_offDelayTimer.stop()"
onMaxHoldEnd_keepsOffTimer(f) ==
    LET a == [f EXCEPT !.m_maxHoldTimer = Stopped,
                       !.qassertFailed = @ \/ ~f.m_outputIsActive]
    IN  sendOffSignal([a EXCEPT !.m_outputIsActive = FALSE])

\* onMaxHoldEnd() without "m_outputIsActive = false": the released filter
\* still counts as active and ignores the next triggerOn()
onMaxHoldEnd_staysActive(f) ==
    LET a == [f EXCEPT !.m_maxHoldTimer = Stopped,
                       !.qassertFailed = @ \/ ~f.m_outputIsActive]
        b == sendOffSignal(a)
    IN  [b EXCEPT !.m_offDelayTimer = Stopped]

\* slot of m_maxHoldTimer's timeout
onMaxHoldEnd(f) ==
    LET a == [f EXCEPT !.m_maxHoldTimer = Stopped,
                       !.qassertFailed = @ \/ ~f.m_outputIsActive]
        b == sendOffSignal([a EXCEPT !.m_outputIsActive = FALSE])
    IN  [b EXCEPT !.m_offDelayTimer = Stopped]

\* onOffDelayEnd() without "m_maxHoldTimer.stop()"
onOffDelayEnd_keepsMaxHold(f) ==
    LET a == [f EXCEPT !.m_offDelayTimer = Stopped,
                       !.qassertFailed = @ \/ ~f.m_outputIsActive]
    IN  sendOffSignal([a EXCEPT !.m_outputIsActive = FALSE])

\* slot of m_offDelayTimer's timeout
onOffDelayEnd(f) ==
    LET a == [f EXCEPT !.m_offDelayTimer = Stopped,
                       !.qassertFailed = @ \/ ~f.m_outputIsActive]
        b == sendOffSignal([a EXCEPT !.m_outputIsActive = FALSE])
    IN  [b EXCEPT !.m_maxHoldTimer = Stopped]

\* a timeout is due on one of the three timers
TimeoutDue(f) ==
    \/ f.m_onDelayTimer = 0
    \/ f.m_maxHoldTimer = 0
    \/ f.m_offDelayTimer = 0

\* one millisecond passes for the filter's timers
advanceTime(f) ==
    [f EXCEPT !.m_onDelayTimer  = Elapse(@),
              !.m_maxHoldTimer  = Elapse(@),
              !.m_offDelayTimer = Elapse(@)]

\* the four states of the filter as the specification names them
StateOf(f) ==
    IF f.m_outputIsActive
    THEN (IF isActive(f.m_offDelayTimer) THEN "OffPending" ELSE "Active")
    ELSE (IF isActive(f.m_onDelayTimer) THEN "OnPending" ELSE "Idle")

\* ------------------------------------------------------ Sound2OscEngine
\* the six trigger generators in the order of m_triggerInterfaces
Detectors == <<"bass", "loMid", "hiMid", "high", "envelope", "silence">>

DetectorSet == {Detectors[i] : i \in 1..Len(Detectors)}

\* third constructor argument of TriggerGenerator: the band-pass detectors
isBandpass(d) == d \in {"bass", "loMid", "hiMid", "high"}

\* fifth constructor argument of TriggerGenerator: the band's mid frequency
midFreq(d) ==
    CASE d = "bass"  -> 80
      [] d = "loMid" -> 400
      [] d = "hiMid" -> 1000
      [] d = "high"  -> 5000

\* the engine after construction.  deviceName says whether the settings
\* hold a non-empty input device name; thresholds maps each detector to its
\* threshold.  audioSource is the state of the wrapper's QAudioSource:
\* "none" before an input was selected, "active" while it captures.
Sound2OscEngine(deviceName, thresholds) ==
    [ m_running       |-> FALSE,
      m_lowSoloMode   |-> FALSE,
      m_fftTimer      |-> FALSE,
      m_bpmTimer      |-> FALSE,
      m_statusTimer   |-> FALSE,
      inputDeviceName |-> deviceName,
      audioSource     |-> "none",
      threshold       |-> thresholds,
      detectBPM       |-> FALSE ]

\* QAudioInputWrapper::setInputByName(): the previous source is stopped and
\* deleted, a new one is created and started
setInputByName(e) == [e EXCEPT !.audioSource = "active"]

applySettings(e) == IF e.inputDeviceName THEN setInputByName(e) ELSE e

\* start() without "if (m_running) return"
start_reapplies(e) ==
    [applySettings(e) EXCEPT !.m_running = TRUE,
                             !.m_fftTimer = TRUE,
                             !.m_bpmTimer = TRUE,
                             !.m_statusTimer = TRUE]

start(e) ==
    IF e.m_running THEN e
    ELSE [applySettings(e) EXCEPT !.m_running = TRUE,
                                  !.m_fftTimer = TRUE,
                                  !.m_bpmTimer = TRUE,
                                  !.m_statusTimer = TRUE]

\* stop() written as a start/stop toggle: a call on a stopped engine starts it
stop_togglesRunning(e) ==
    IF ~e.m_running THEN start(e)
    ELSE [e EXCEPT !.m_running = FALSE,
                   !.m_fftTimer = FALSE,
                   !.m_bpmTimer = FALSE,
                   !.m_statusTimer = FALSE]

stop(e) ==
    IF ~e.m_running THEN e
    ELSE [e EXCEPT !.m_running = FALSE,
                   !.m_fftTimer = FALSE,
                   !.m_bpmTimer = FALSE,
                   !.m_statusTimer = FALSE]

setLowSoloMode(e, enabled) == [e EXCEPT !.m_lowSoloMode = enabled]

\* frequency from which a band-pass detector is released in low-solo mode
LowSoloCutoffHz == 1000

\* the low-solo rule as it would be if only detectors strictly above the
\* cut-off were released
forceRelease_aboveCutoff(d, lowSoloMode) ==
    lowSoloMode /\ isBandpass(d) /\ midFreq(d) > LowSoloCutoffHz

\* whether the FFT tick forces detector d to release
forceRelease(d, lowSoloMode) ==
    lowSoloMode /\ isBandpass(d) /\ midFreq(d) >= LowSoloCutoffHz

\* mean of the four bands of the spectrum, rounded down
MeanLevel(spectrum) ==
    (spectrum["bass"] + spectrum["loMid"] + spectrum["hiMid"] + spectrum["high"])
        \div 4

\* the level a detector reads from the spectrum
levelOf(d, spectrum) ==
    CASE isBandpass(d) -> spectrum[d]
      [] d = "envelope" -> MeanLevel(spectrum)
      [] d = "silence"  -> MaxLevel - MeanLevel(spectrum)

\* the detector's comparison as it would be with "level > threshold"
checkForTrigger_strictlyAbove(level, threshold, release) ==
    IF release THEN "triggerOff"
    ELSE IF level > threshold THEN "triggerOn" ELSE "triggerOff"

\* TriggerGenerator::checkForTrigger(spectrum, forceRelease): the call it
\* makes on its filter
checkForTrigger(level, threshold, release) ==
    IF release THEN "triggerOff"
    ELSE IF level >= threshold THEN "triggerOn" ELSE "triggerOff"

\* what one detector did in an FFT tick
DetectorTick(d, spectrum, threshold, lowSoloMode) ==
    LET release == forceRelease(d, lowSoloMode)
        level   == IF release THEN 0 ELSE levelOf(d, spectrum)
        call    == checkForTrigger(level, threshold, release)
    IN  [ level        |-> level,
          forceRelease |-> release,
          triggerOn    |-> IF call = "triggerOn" THEN 1 ELSE 0,
          triggerOff   |-> IF call = "triggerOff" THEN 1 ELSE 0 ]

\* no FFT tick has run
NoTick ==
    [d \in DetectorSet |->
        [level |-> 0, forceRelease |-> FALSE, triggerOn |-> 0, triggerOff |-> 0]]

\* FFTAnalyzer::calculateFFT(lowSoloMode): every detector checks the spectrum
calculateFFT(e, spectrum, lowSoloMode) ==
    [d \in DetectorSet |-> DetectorTick(d, spectrum, e.threshold[d], lowSoloMode)]

\* slot of m_fftTimer: the detector calls of this tick (none when stopped)
onFftTimer(e, spectrum) ==
    IF ~e.m_running THEN NoTick
    ELSE calculateFFT(e, spectrum, e.m_lowSoloMode)

\* slot of m_bpmTimer
onBpmTimer(e) ==
    IF ~e.m_running THEN e ELSE [e EXCEPT !.detectBPM = TRUE]

\* ---------------------------------------------------- preset documents
\* A QJsonValue that is no object: its type, and its value as a bool or as
\* a number.  "undefined" is what QJsonObject::operator[] gives for a key
\* the object does not hold.
JUndefined == [type |-> "undefined", b |-> FALSE, n |-> 0]

JBool(x) == [type |-> "bool", b |-> x, n |-> 0]

JNum(x) == [type |-> "double", b |-> FALSE, n |-> x]

JString == [type |-> "string", b |-> FALSE, n |-> 0]

\* QJsonValue::toBool(defaultValue)
toBool(v, default) == IF v.type = "bool" THEN v.b ELSE default

\* QJsonValue::toDouble(defaultValue)
toDouble(v, default) == IF v.type = "double" THEN v.n ELSE default

\* QJsonValue::toInt(defaultValue); the numbers of the model are whole
toInt(v, default) == IF v.type = "double" THEN v.n ELSE default

\* QJsonObject::contains(key), for a member that is a value or an object
contains(v) == v.type # "undefined"

\* QJsonValue::toObject(): the object, or the empty object if it is none
toObject(v, empty) == IF v.type = "object" THEN v ELSE empty

\* The objects of a preset document, one record per object with a member
\* per key the program reads or writes, and `future` for one more key that
\* the program does not know.  `type` is "object", "undefined" (the key is
\* absent from the parent) or the type of a value that is no object.
FilterObject(t, onDelay, offDelay, maxHold, future) ==
    [ type |-> t, onDelay |-> onDelay, offDelay |-> offDelay,
      maxHold |-> maxHold, future |-> future ]

EmptyFilterObject ==
    FilterObject("object", JUndefined, JUndefined, JUndefined, JUndefined)

TriggerObject(t, threshold, fil, future) ==
    [ type |-> t, threshold |-> threshold, filter |-> fil, future |-> future ]

EmptyTriggerObject ==
    TriggerObject("object", JUndefined,
                  [EmptyFilterObject EXCEPT !.type = "undefined"], JUndefined)

EmptyTriggersObject ==
    [ type |-> "object",
      t |-> [d \in DetectorSet |-> [EmptyTriggerObject EXCEPT !.type = "undefined"]],
      future |-> JUndefined ]

EmptyDspObject ==
    [ type |-> "object", gain |-> JUndefined, compression |-> JUndefined,
      decibel |-> JUndefined, agc |-> JUndefined, future |-> JUndefined ]

EmptyOscObject == [ type |-> "object", commands |-> JUndefined ]

EmptyBpmObject ==
    [ type |-> "object", min |-> JUndefined, mute |-> JUndefined,
      osc |-> [EmptyOscObject EXCEPT !.type = "undefined"],
      future |-> JUndefined ]

EmptyDocument ==
    [ lowSoloMode |-> JUndefined,
      dsp |-> [EmptyDspObject EXCEPT !.type = "undefined"],
      bpm |-> [EmptyBpmObject EXCEPT !.type = "undefined"],
      triggers |-> [EmptyTriggersObject EXCEPT !.type = "undefined"],
      future |-> JUndefined ]

\* TriggerFilter::toState() without the "maxHold" key
filterToState_noMaxHold(t) ==
    FilterObject("object", JNum(t.m_onDelay), JNum(t.m_offDelay),
                 JUndefined, JUndefined)

\* TriggerFilter::toState()
filterToState(t) ==
    FilterObject("object", JNum(t.m_onDelay), JNum(t.m_offDelay),
                 JNum(t.m_maxHold), JUndefined)

\* TriggerFilter::fromState(state)
filterFromState(t, state) ==
    [t EXCEPT !.m_onDelay  = toDouble(state.onDelay, 0),
              !.m_offDelay = toDouble(state.offDelay, 0),
              !.m_maxHold  = toDouble(state.maxHold, 0)]

\* TriggerGenerator::toState(): the threshold and the filter's object
triggerToState(t) ==
    TriggerObject("object", JNum(t.threshold), filterToState(t), JUndefined)

\* TriggerGenerator::fromState(state)
triggerFromState(t, state) ==
    LET a == [t EXCEPT !.threshold = toDouble(state.threshold, t.threshold)]
    IN  IF contains(state.filter)
        THEN filterFromState(a, toObject(state.filter, EmptyFilterObject))
        ELSE a

\* BPMOscControler::toState(): the list of commands, as a number
bpmOscToState(commands) == [ type |-> "object", commands |-> JNum(commands) ]

\* BPMOscControler::fromState(state)
bpmOscFromState(state) == toDouble(state.commands, 0)

\* the preset-relevant configuration of the engine and its components
EngineConfig(lowSolo, gain, compression, decibel, agc, minBPM, mute, osc, triggers) ==
    [ m_lowSoloMode |-> lowSolo,
      gain          |-> gain,
      compression   |-> compression,
      decibel       |-> decibel,
      agc           |-> agc,
      minBPM        |-> minBPM,
      bpmMute       |-> mute,
      bpmOsc        |-> osc,
      triggers      |-> triggers ]

\* Sound2OscEngine::toState()
toState(c) ==
    [ lowSoloMode |-> JBool(c.m_lowSoloMode),
      dsp |-> [ type |-> "object", gain |-> JNum(c.gain),
                compression |-> JNum(c.compression),
                decibel |-> JBool(c.decibel), agc |-> JBool(c.agc),
                future |-> JUndefined ],
      bpm |-> [ type |-> "object", min |-> JNum(c.minBPM),
                mute |-> JBool(c.bpmMute), osc |-> bpmOscToState(c.bpmOsc),
                future |-> JUndefined ],
      triggers |-> [ type |-> "object",
                     t |-> [d \in DetectorSet |-> triggerToState(c.triggers[d])],
                     future |-> JUndefined ],
      future |-> JUndefined ]

fromStateGlobal(c, state) ==
    IF contains(state.lowSoloMode)
    THEN [c EXCEPT !.m_lowSoloMode = toBool(state.lowSoloMode, FALSE)]
    ELSE c

fromStateDsp(c, state) ==
    IF contains(state.dsp)
    THEN LET dsp == toObject(state.dsp, EmptyDspObject)
         IN  [c EXCEPT !.gain        = toDouble(dsp.gain, 1),
                       !.compression = toDouble(dsp.compression, 1),
                       !.decibel     = toBool(dsp.decibel, FALSE),
                       !.agc         = toBool(dsp.agc, TRUE)]
    ELSE c

\* the default of bpm["min"].toInt(75)
DefaultMinBPM == 75

fromStateBpm(c, state) ==
    IF contains(state.bpm)
    THEN LET bpm == toObject(state.bpm, EmptyBpmObject)
             a   == [c EXCEPT !.minBPM  = toInt(bpm.min, DefaultMinBPM),
                              !.bpmMute = toBool(bpm.mute, FALSE)]
         IN  IF contains(bpm.osc)
             THEN [a EXCEPT !.bpmOsc =
                      bpmOscFromState(toObject(bpm.osc, EmptyOscObject))]
             ELSE a
    ELSE c

\* the triggers section read without "if (triggers.contains(...))": a trigger
\* that has no entry is given the empty object
fromStateTriggers_readsMissing(c, state) ==
    IF contains(state.triggers)
    THEN LET triggers == toObject(state.triggers, EmptyTriggersObject)
         IN  [c EXCEPT !.triggers =
                [d \in DetectorSet |->
                    triggerFromState(c.triggers[d],
                        toObject(triggers.t[d],
                                 [EmptyTriggerObject EXCEPT !.type = "object",
                                      !.filter.type = "object"]))]]
    ELSE c

fromStateTriggers(c, state) ==
    IF contains(state.triggers)
    THEN LET triggers == toObject(state.triggers, EmptyTriggersObject)
         IN  [c EXCEPT !.triggers =
                [d \in DetectorSet |->
                    IF contains(triggers.t[d])
                    THEN triggerFromState(c.triggers[d],
                             toObject(triggers.t[d], EmptyTriggerObject))
                    ELSE c.triggers[d]]]
    ELSE c

\* Sound2OscEngine::fromState(state)
fromState(c, state) ==
    fromStateTriggers(fromStateBpm(fromStateDsp(fromStateGlobal(c, state),
                                                state), state), state)

\* a trigger generator's threshold and its filter's delays
TriggerConfig(threshold, onDelay, offDelay, maxHold) ==
    [ threshold  |-> threshold,
      m_onDelay  |-> onDelay,
      m_offDelay |-> offDelay,
      m_maxHold  |-> maxHold ]

\* the configuration after construction
DefaultConfig ==
    EngineConfig(FALSE, 1, 1, FALSE, TRUE, DefaultMinBPM, FALSE, 0,
                 [d \in DetectorSet |-> TriggerConfig(0, 0, 0, 0)])

\* --------------------------------------------------------------- state
VARIABLES
    filter,     \* the TriggerFilter object and its emitted signals
    last,       \* the operation that ran last
    before,     \* the filter as it was when that operation started
    sinceOn,    \* ms since the trigger_on that left Idle (-1: not pending)
    sinceOff,   \* ms since the trigger_off that left Active (-1: not pending)
    onAt,       \* value of sinceOn when the last on signal was sent
    offAt,      \* value of sinceOff when the last off signal was sent
    clock,      \* parity of the wall clock's millisecond count
    heldFor,    \* ms since the entry to Active (-1: inactive or no max-hold)
    releasedNow, \* the max-hold timeout released the filter in this ms
    muted,      \* a second filter, configured like `filter` but with the
                \* opposite m_mute, that SpecMute drives with the same events
    engine,     \* the Sound2OscEngine object
    tick,       \* what each detector did in the last FFT tick
    engineLast, \* the engine operation that ran last
    engineBefore, \* the engine as it was when that operation started
    config,     \* the engine's configuration, as presets see it
    loaded,     \* the document given to the last fromState()
    saved,      \* the document returned by the last toState()
    presetLast, \* the preset operation that ran last
    configBefore, \* the configuration when that operation started
    handler,    \* where the handler that the event loop is running stands
    observed,   \* the configuration the last FFT or BPM tick read
    timerList,  \* the event dispatcher's list of the running repeating timers
    maxCount,   \* timeouts the running activateTimers() may still deliver
    firstTimerInfo, \* the timer that activateTimers() delivered last
    fired,      \* the last timeout delivered: how late, and its new deadline
    filters,    \* the six detectors' TriggerFilter objects
    filterTimers, \* the dispatcher's list of the filters' running timers
    wire,       \* detectors whose signals the last tick caused, in send order
    ring, \* the RingBuffer: its cells and its write cursor
    pushed, \* every sample pushed so far, in push order
    frame, \* the last snapshot, if no sample was pushed since
    sendQueue, \* the send queue shared by the UDP and the TCP transport
    queueBefore, \* the queue when the last operation on it started
    queueLast, \* the last operation on the queue
    nextMessage, \* number of the next message to be queued
    writer, \* the OSC packet writer, its address and the arguments added so far
    packet, \* the bytes the writer created, none before Create
    message, \* the OSC message parsed from the packet, none before parsing
    store, \* the JsonConfigStore instance: m_filePath, m_root and m_dirty
    disk, \* the config file and the temporary file next to it
    saving, \* the position of a save() in progress, the file before it and its data
    call, \* the last call on the store that returned
    stored, \* per key path the value last stored, in the instance and in the saved file
    m_mutex, \* the thread that holds the store's mutex, or Free
    threads, \* per thread the public method it is in and its position there
    shared, \* m_root and m_dirty as the threads share them
    lastAccess, \* the last read or write of a shared member, none at first
    legacyFile, \* the settings file of the legacy application: whether it exists, its formatVersion
    markerFile, \* the new application's settings file with the key migration/v2_complete
    mainAt, \* where main() of the application is
    migrations, \* number of runs of migrate() and of application starts, and the last result
    hasLegacy, \* the last answer of hasLegacySettings(), none at first
    presetManager, \* the PresetManager: m_currentPresetPath and m_hasUnsavedChanges
    managerBefore, \* the PresetManager when the last call on it started
    saveCall, \* the last call on the PresetManager, its arguments, result and signals
    inSlot, \* the timer slot the main thread is in, past its m_running test, or none
    posted, \* the timer events waiting in the event loop
    quit, \* QCoreApplication::quit() was called
    processing \* the last FFT or BPM processing: which, whether stop() had returned before it

vars == <<filter, last, before, sinceOn, sinceOff, onAt, offAt, clock,
          heldFor, releasedNow, muted,
          engine, tick, engineLast, engineBefore,
          config, loaded, saved, presetLast, configBefore,
          handler, observed, timerList, maxCount, firstTimerInfo, fired,
          filters, filterTimers, wire,
          ring, pushed, frame,
          sendQueue, queueBefore, queueLast, nextMessage,
          writer, packet, message,
          store, disk, saving, call, stored,
          m_mutex, threads, shared, lastAccess,
          legacyFile, markerFile, mainAt, migrations, hasLegacy,
          presetManager, managerBefore, saveCall,
          inSlot, posted, quit, processing>>

filterVars == <<filter, last, before, sinceOn, sinceOff, onAt, offAt, clock,
                heldFor, releasedNow, muted>>

engineVars == <<engine, tick, engineLast, engineBefore>>

presetVars == <<config, loaded, saved, presetLast, configBefore>>

applyVars == <<handler, observed>>

timerVars == <<timerList, maxCount, firstTimerInfo, fired>>

orderVars == <<filters, filterTimers, wire>>

ringVars == <<ring, pushed, frame>>

queueVars == <<sendQueue, queueBefore, queueLast, nextMessage>>

oscVars == <<writer, packet, message>>

storeVars == <<store, disk, saving, call, stored>>

\* the variables of the parts that the filter, the engine's lifecycle and
\* the preset specifications leave out
lockVars == <<m_mutex, threads, shared, lastAccess>>

migrationVars == <<legacyFile, markerFile, mainAt, migrations, hasLegacy>>

managerVars == <<presetManager, managerBefore, saveCall>>

shutdownVars == <<inSlot, posted, quit, processing>>

restVars == <<applyVars, timerVars, orderVars, ringVars, queueVars, oscVars, storeVars, lockVars, migrationVars, managerVars, shutdownVars>>

\* what the newer specifications leave out of restVars
shutdownRest == <<applyVars, timerVars, orderVars, ringVars, queueVars, oscVars, storeVars, lockVars, migrationVars, managerVars>>

managerRest == <<applyVars, timerVars, orderVars, ringVars, queueVars, oscVars, storeVars, lockVars, migrationVars, shutdownVars>>

migrationRest == <<applyVars, timerVars, orderVars, ringVars, queueVars, oscVars, storeVars, lockVars, managerVars, shutdownVars>>

lockRest == <<applyVars, timerVars, orderVars, ringVars, queueVars, oscVars, storeVars, migrationVars, managerVars, shutdownVars>>

storeRest == <<applyVars, timerVars, orderVars, ringVars, queueVars, oscVars, lockVars, migrationVars, managerVars, shutdownVars>>

oscRest == <<applyVars, timerVars, orderVars, ringVars, queueVars, storeVars, lockVars, migrationVars, managerVars, shutdownVars>>

queueRest == <<applyVars, timerVars, orderVars, ringVars, oscVars, storeVars, lockVars, migrationVars, managerVars, shutdownVars>>

ringRest == <<applyVars, timerVars, orderVars, queueVars, oscVars, storeVars, lockVars, migrationVars, managerVars, shutdownVars>>

orderRest == <<applyVars, timerVars, ringVars, queueVars, oscVars, storeVars, lockVars, migrationVars, managerVars, shutdownVars>>

applyRest == <<timerVars, orderVars, ringVars, queueVars, oscVars, storeVars, lockVars, migrationVars, managerVars, shutdownVars>>

timersRest == <<applyVars, orderVars, ringVars, queueVars, oscVars, storeVars, lockVars, migrationVars, managerVars, shutdownVars>>

\* Each specification below models one part of the program; the variables
\* of the other parts are not used by it and hold this value throughout.
Unused == "unused"

FilterUnused ==
    /\ filter = Unused
    /\ last = Unused
    /\ before = Unused
    /\ sinceOn = Unused
    /\ sinceOff = Unused
    /\ onAt = Unused
    /\ offAt = Unused
    /\ clock = Unused
    /\ heldFor = Unused
    /\ releasedNow = Unused
    /\ muted = Unused

EngineUnused ==
    /\ engine = Unused
    /\ tick = Unused
    /\ engineLast = Unused
    /\ engineBefore = Unused

PresetUnused ==
    /\ config = Unused
    /\ loaded = Unused
    /\ saved = Unused
    /\ presetLast = Unused
    /\ configBefore = Unused

ApplyUnused ==
    /\ handler = Unused
    /\ observed = Unused

TimerUnused ==
    /\ timerList = Unused
    /\ maxCount = Unused
    /\ firstTimerInfo = Unused
    /\ fired = Unused

OrderUnused ==
    /\ filters = Unused
    /\ filterTimers = Unused
    /\ wire = Unused

RingUnused ==
    /\ ring = Unused
    /\ pushed = Unused
    /\ frame = Unused

QueueUnused ==
    /\ sendQueue = Unused
    /\ queueBefore = Unused
    /\ queueLast = Unused
    /\ nextMessage = Unused

OscUnused ==
    /\ writer = Unused
    /\ packet = Unused
    /\ message = Unused

StoreUnused ==
    /\ store = Unused
    /\ disk = Unused
    /\ saving = Unused
    /\ call = Unused
    /\ stored = Unused

LockUnused ==
    /\ m_mutex = Unused
    /\ threads = Unused
    /\ shared = Unused
    /\ lastAccess = Unused

MigrationUnused ==
    /\ legacyFile = Unused
    /\ markerFile = Unused
    /\ mainAt = Unused
    /\ migrations = Unused
    /\ hasLegacy = Unused

ManagerUnused ==
    /\ presetManager = Unused
    /\ managerBefore = Unused
    /\ saveCall = Unused

ShutdownUnused ==
    /\ inSlot = Unused
    /\ posted = Unused
    /\ quit = Unused
    /\ processing = Unused

RestUnused ==
    /\ ApplyUnused
    /\ TimerUnused
    /\ OrderUnused
    /\ RingUnused
    /\ QueueUnused
    /\ OscUnused
    /\ StoreUnused
    /\ LockUnused
    /\ MigrationUnused
    /\ ManagerUnused
    /\ ShutdownUnused

ApplyRestUnused ==
    /\ TimerUnused
    /\ OrderUnused
    /\ RingUnused
    /\ QueueUnused
    /\ OscUnused
    /\ StoreUnused
    /\ LockUnused
    /\ MigrationUnused
    /\ ManagerUnused
    /\ ShutdownUnused

TimersRestUnused ==
    /\ ApplyUnused
    /\ OrderUnused
    /\ RingUnused
    /\ QueueUnused
    /\ OscUnused
    /\ StoreUnused
    /\ LockUnused
    /\ MigrationUnused
    /\ ManagerUnused
    /\ ShutdownUnused

OrderRestUnused ==
    /\ ApplyUnused
    /\ TimerUnused
    /\ RingUnused
    /\ QueueUnused
    /\ OscUnused
    /\ StoreUnused
    /\ LockUnused
    /\ MigrationUnused
    /\ ManagerUnused
    /\ ShutdownUnused

RingRestUnused ==
    /\ ApplyUnused
    /\ TimerUnused
    /\ OrderUnused
    /\ QueueUnused
    /\ OscUnused
    /\ StoreUnused
    /\ LockUnused
    /\ MigrationUnused
    /\ ManagerUnused
    /\ ShutdownUnused

QueueRestUnused ==
    /\ ApplyUnused
    /\ TimerUnused
    /\ OrderUnused
    /\ RingUnused
    /\ OscUnused
    /\ StoreUnused
    /\ LockUnused
    /\ MigrationUnused
    /\ ManagerUnused
    /\ ShutdownUnused

OscRestUnused ==
    /\ ApplyUnused
    /\ TimerUnused
    /\ OrderUnused
    /\ RingUnused
    /\ QueueUnused
    /\ StoreUnused
    /\ LockUnused
    /\ MigrationUnused
    /\ ManagerUnused
    /\ ShutdownUnused

StoreRestUnused ==
    /\ ApplyUnused
    /\ TimerUnused
    /\ OrderUnused
    /\ RingUnused
    /\ QueueUnused
    /\ OscUnused
    /\ LockUnused
    /\ MigrationUnused
    /\ ManagerUnused
    /\ ShutdownUnused

LockRestUnused ==
    /\ ApplyUnused
    /\ TimerUnused
    /\ OrderUnused
    /\ RingUnused
    /\ QueueUnused
    /\ OscUnused
    /\ StoreUnused
    /\ MigrationUnused
    /\ ManagerUnused
    /\ ShutdownUnused

MigrationRestUnused ==
    /\ ApplyUnused
    /\ TimerUnused
    /\ OrderUnused
    /\ RingUnused
    /\ QueueUnused
    /\ OscUnused
    /\ StoreUnused
    /\ LockUnused
    /\ ManagerUnused
    /\ ShutdownUnused

ManagerRestUnused ==
    /\ ApplyUnused
    /\ TimerUnused
    /\ OrderUnused
    /\ RingUnused
    /\ QueueUnused
    /\ OscUnused
    /\ StoreUnused
    /\ LockUnused
    /\ MigrationUnused
    /\ ShutdownUnused

ShutdownRestUnused ==
    /\ ApplyUnused
    /\ TimerUnused
    /\ OrderUnused
    /\ RingUnused
    /\ QueueUnused
    /\ OscUnused
    /\ StoreUnused
    /\ LockUnused
    /\ MigrationUnused
    /\ ManagerUnused

MaxElapsed == ToTimerMs(MaxDelay) + 2

Tick(n) == IF n < 0 THEN n ELSE IF n < MaxElapsed THEN n + 1 ELSE n

Init ==
    /\ \E mute \in BOOLEAN, onDelay \in Delays, offDelay \in Delays,
          maxHold \in Delays, onMsg \in BOOLEAN, offMsg \in BOOLEAN :
          filter = TriggerFilter(mute, onDelay, offDelay, maxHold, onMsg, offMsg)
    /\ last = "init"
    /\ before = filter
    /\ sinceOn = -1
    /\ sinceOff = -1
    /\ onAt = -1
    /\ offAt = -1
    /\ clock = 0
    /\ heldFor = -1
    /\ releasedNow = FALSE
    /\ muted = [filter EXCEPT !.m_mute = ~filter.m_mute]
    /\ EngineUnused
    /\ PresetUnused
    /\ RestUnused

\* the detector asserts: TriggerFilter::triggerOn()
TriggerOn ==
    /\ filter.onSignalSent < MaxSignals \/ StateOf(filter) # "Idle"
    /\ filter' = triggerOn(filter)
    /\ last' = "triggerOn"
    /\ before' = filter
    /\ sinceOn' = IF StateOf(filter) = "Idle" THEN 0 ELSE sinceOn
    /\ sinceOff' = -1
    /\ UNCHANGED <<onAt, offAt, clock, heldFor, releasedNow, muted, engineVars, presetVars, restVars>>

\* the detector de-asserts: TriggerFilter::triggerOff()
TriggerOff ==
    /\ filter' = triggerOff(filter)
    /\ last' = "triggerOff"
    /\ before' = filter
    /\ sinceOn' = -1
    /\ sinceOff' = IF StateOf(filter) = "Active" THEN 0 ELSE sinceOff
    /\ UNCHANGED <<onAt, offAt, clock, heldFor, releasedNow, muted, engineVars, presetVars, restVars>>

\* m_onDelayTimer times out
OnDelayTimeout ==
    /\ filter.m_onDelayTimer = 0
    /\ filter' = onOnDelayEnd(filter)
    /\ last' = "onOnDelayEnd"
    /\ before' = filter
    /\ onAt' = sinceOn
    /\ sinceOn' = -1
    /\ heldFor' = IF filter.m_maxHold > 0 THEN 0 ELSE -1
    /\ UNCHANGED <<sinceOff, offAt, clock, releasedNow, muted, engineVars, presetVars, restVars>>

\* m_maxHoldTimer times out
MaxHoldTimeout ==
    /\ filter.m_maxHoldTimer = 0
    /\ filter' = onMaxHoldEnd(filter)
    /\ last' = "onMaxHoldEnd"
    /\ before' = filter
    /\ offAt' = sinceOff
    /\ sinceOff' = -1
    /\ heldFor' = -1
    /\ releasedNow' = TRUE
    /\ UNCHANGED <<sinceOn, onAt, clock, muted, engineVars, presetVars, restVars>>

\* m_offDelayTimer times out
OffDelayTimeout ==
    /\ filter.m_offDelayTimer = 0
    /\ filter' = onOffDelayEnd(filter)
    /\ last' = "onOffDelayEnd"
    /\ before' = filter
    /\ offAt' = sinceOff
    /\ sinceOff' = -1
    /\ heldFor' = -1
    /\ UNCHANGED <<sinceOn, onAt, clock, releasedNow, muted, engineVars, presetVars, restVars>>

\* one millisecond passes; a due timeout is delivered first
Advance ==
    /\ ~TimeoutDue(filter)
    /\ filter' = advanceTime(filter)
    /\ last' = "advance"
    /\ before' = filter
    /\ sinceOn' = Tick(sinceOn)
    /\ sinceOff' = Tick(sinceOff)
    /\ clock' = 1 - clock
    /\ heldFor' = Tick(heldFor)
    /\ releasedNow' = FALSE
    /\ UNCHANGED <<onAt, offAt, muted, engineVars, presetVars, restVars>>

Next ==
    \/ TriggerOn
    \/ TriggerOff
    \/ OnDelayTimeout
    \/ MaxHoldTimeout
    \/ OffDelayTimeout
    \/ Advance

Spec == Init /\ [][Next]_vars

\* The Qt event loop delivers a due timeout, and time passes: a timeout that
\* stays due is delivered, and the clock advances again and again however
\* often the detector calls in between.  The detector's calls are not forced:
\* the detector may assert for ever, and it calls no more once the engine's
\* tick timers are stopped.
FairSpec ==
    /\ Spec
    /\ WF_vars(OnDelayTimeout)
    /\ WF_vars(MaxHoldTimeout)
    /\ WF_vars(OffDelayTimeout)
    /\ SF_vars(Advance)

\* ----------------------------------------------- two filters, one muted
\* `filter` and `muted` receive the same calls and the same timeouts; the
\* events are those of `filter`.  A timeout that is not due in `muted` is
\* not delivered to it.
histVars == <<last, before, sinceOn, sinceOff, onAt, offAt, heldFor, releasedNow>>

BothTriggerOn ==
    /\ filter.onSignalSent < MaxSignals \/ StateOf(filter) # "Idle"
    /\ filter' = triggerOn(filter)
    /\ muted' = triggerOn(muted)
    /\ UNCHANGED <<histVars, clock, engineVars, presetVars, restVars>>

BothTriggerOff ==
    /\ filter' = triggerOff(filter)
    /\ muted' = triggerOff(muted)
    /\ UNCHANGED <<histVars, clock, engineVars, presetVars, restVars>>

BothOnDelayTimeout ==
    /\ filter.m_onDelayTimer = 0
    /\ filter' = onOnDelayEnd(filter)
    /\ muted' = IF muted.m_onDelayTimer = 0 THEN onOnDelayEnd(muted) ELSE muted
    /\ UNCHANGED <<histVars, clock, engineVars, presetVars, restVars>>

BothMaxHoldTimeout ==
    /\ filter.m_maxHoldTimer = 0
    /\ filter' = onMaxHoldEnd(filter)
    /\ muted' = IF muted.m_maxHoldTimer = 0 THEN onMaxHoldEnd(muted) ELSE muted
    /\ UNCHANGED <<histVars, clock, engineVars, presetVars, restVars>>

BothOffDelayTimeout ==
    /\ filter.m_offDelayTimer = 0
    /\ filter' = onOffDelayEnd(filter)
    /\ muted' = IF muted.m_offDelayTimer = 0 THEN onOffDelayEnd(muted) ELSE muted
    /\ UNCHANGED <<histVars, clock, engineVars, presetVars, restVars>>

BothAdvance ==
    /\ ~TimeoutDue(filter)
    /\ filter' = advanceTime(filter)
    /\ muted' = advanceTime(muted)
    /\ clock' = 1 - clock
    /\ UNCHANGED <<histVars, engineVars, presetVars, restVars>>

MuteNext ==
    \/ BothTriggerOn
    \/ BothTriggerOff
    \/ BothOnDelayTimeout
    \/ BothMaxHoldTimeout
    \/ BothOffDelayTimeout
    \/ BothAdvance

SpecMute == Init /\ [][MuteNext]_vars

\* ------------------------------------------------ the engine's lifecycle
\* The engine is started and stopped by its owner, its low-solo flag and its
\* audio input are set from the GUI, and while the repeating FFT and BPM
\* timers run their slots are called.  The filters are left out here: a
\* detector's call is recorded in `tick`.
BandDetectors == {d \in DetectorSet : isBandpass(d)}

Spectra == [BandDetectors -> Levels]

\* thresholds of the detectors: one for the band-pass detectors and one
\* for the envelope and the silence detector
Thresholds(band, other) ==
    [d \in DetectorSet |-> IF isBandpass(d) THEN band ELSE other]

InitEngine ==
    /\ FilterUnused
    /\ \E deviceName \in BOOLEAN, band \in Levels, other \in Levels :
          engine = Sound2OscEngine(deviceName, Thresholds(band, other))
    /\ tick = NoTick
    /\ engineLast = "init"
    /\ engineBefore = engine
    /\ PresetUnused
    /\ RestUnused

\* Sound2OscEngine::start()
Start ==
    /\ engine' = start(engine)
    /\ engineLast' = "start"
    /\ engineBefore' = engine
    /\ UNCHANGED <<tick, filterVars, presetVars, restVars>>

\* Sound2OscEngine::stop()
Stop ==
    /\ engine' = stop(engine)
    /\ engineLast' = "stop"
    /\ engineBefore' = engine
    /\ UNCHANGED <<tick, filterVars, presetVars, restVars>>

\* Sound2OscEngine::setLowSoloMode(enabled)
SetLowSoloMode ==
    /\ \E enabled \in BOOLEAN : engine' = setLowSoloMode(engine, enabled)
    /\ engineLast' = "setLowSoloMode"
    /\ engineBefore' = engine
    /\ UNCHANGED <<tick, filterVars, presetVars, restVars>>

\* the GUI selects an input: engine->audioInput()->setInputByName(name)
SelectInput ==
    /\ engine' = setInputByName(engine)
    /\ engineLast' = "setInputByName"
    /\ engineBefore' = engine
    /\ UNCHANGED <<tick, filterVars, presetVars, restVars>>

\* m_fftTimer times out: onFftTimer() on the spectrum of the current audio
FftTimeout ==
    /\ engine.m_fftTimer
    /\ \E spectrum \in Spectra : tick' = onFftTimer(engine, spectrum)
    /\ engineLast' = "onFftTimer"
    /\ engineBefore' = engine
    /\ UNCHANGED <<engine, filterVars, presetVars, restVars>>

\* m_bpmTimer times out: onBpmTimer()
BpmTimeout ==
    /\ engine.m_bpmTimer
    /\ engine' = onBpmTimer(engine)
    /\ engineLast' = "onBpmTimer"
    /\ engineBefore' = engine
    /\ UNCHANGED <<tick, filterVars, presetVars, restVars>>

NextEngine ==
    \/ Start
    \/ Stop
    \/ SetLowSoloMode
    \/ SelectInput
    \/ FftTimeout
    \/ BpmTimeout

SpecEngine == InitEngine /\ [][NextEngine]_vars

\* ------------------------------------------------------ loading presets
\* An engine in some configuration is given one document (fromState), and
\* its configuration is written out (toState) or written out and read back.
\* The documents are those toState() writes for some configuration, as they
\* are or with one change: a key or an object missing, a key the program
\* does not know added, or a value of the wrong type or out of range.
ConfigOf(lowSolo, mute, x, y) ==
    EngineConfig(lowSolo, x, y, mute, ~lowSolo, DefaultMinBPM + y, mute, y,
                 [d \in DetectorSet |->
                     IF isBandpass(d) THEN TriggerConfig(x, x, y, y)
                     ELSE TriggerConfig(y, y, x, x)])

Configs ==
    {ConfigOf(lowSolo, mute, x, y) :
        lowSolo \in BOOLEAN, mute \in BOOLEAN, x \in Levels, y \in Levels}

Changes ==
    { "none", "noLowSolo", "noDsp", "noBpm", "noTriggers", "noGain", "noOsc",
      "noBass", "noBassFilter",
      "futureRoot", "futureDsp", "futureBpm", "futureTriggers", "futureBass",
      "futureBassFilter",
      "lowSoloNumber", "dspString", "gainString", "minString", "bpmString",
      "triggersString", "bassString", "bassMaxHoldString",
      "gainNegative", "thresholdTooHigh", "onDelayNegative" }

Future == JNum(42)

Change(doc, change) ==
    CASE change = "none" -> doc
      [] change = "noLowSolo" -> [doc EXCEPT !.lowSoloMode = JUndefined]
      [] change = "noDsp" -> [doc EXCEPT !.dsp.type = "undefined"]
      [] change = "noBpm" -> [doc EXCEPT !.bpm.type = "undefined"]
      [] change = "noTriggers" -> [doc EXCEPT !.triggers.type = "undefined"]
      [] change = "noGain" -> [doc EXCEPT !.dsp.gain = JUndefined]
      [] change = "noOsc" -> [doc EXCEPT !.bpm.osc.type = "undefined"]
      [] change = "noBass" ->
            [doc EXCEPT !.triggers.t["bass"].type = "undefined"]
      [] change = "noBassFilter" ->
            [doc EXCEPT !.triggers.t["bass"].filter.type = "undefined"]
      [] change = "futureRoot" -> [doc EXCEPT !.future = Future]
      [] change = "futureDsp" -> [doc EXCEPT !.dsp.future = Future]
      [] change = "futureBpm" -> [doc EXCEPT !.bpm.future = Future]
      [] change = "futureTriggers" -> [doc EXCEPT !.triggers.future = Future]
      [] change = "futureBass" ->
            [doc EXCEPT !.triggers.t["bass"].future = Future]
      [] change = "futureBassFilter" ->
            [doc EXCEPT !.triggers.t["bass"].filter.future = Future]
      [] change = "lowSoloNumber" -> [doc EXCEPT !.lowSoloMode = JNum(1)]
      [] change = "dspString" -> [doc EXCEPT !.dsp.type = "string"]
      [] change = "gainString" -> [doc EXCEPT !.dsp.gain = JString]
      [] change = "minString" -> [doc EXCEPT !.bpm.min = JString]
      [] change = "bpmString" -> [doc EXCEPT !.bpm.type = "string"]
      [] change = "triggersString" -> [doc EXCEPT !.triggers.type = "string"]
      [] change = "bassString" ->
            [doc EXCEPT !.triggers.t["bass"].type = "string"]
      [] change = "bassMaxHoldString" ->
            [doc EXCEPT !.triggers.t["bass"].filter.maxHold = JString]
      [] change = "gainNegative" -> [doc EXCEPT !.dsp.gain = JNum(-1)]
      [] change = "thresholdTooHigh" ->
            [doc EXCEPT !.triggers.t["bass"].threshold = JNum(MaxLevel + 1)]
      [] change = "onDelayNegative" ->
            [doc EXCEPT !.triggers.t["bass"].filter.onDelay = JNum(-1)]

InitPreset ==
    /\ FilterUnused
    /\ EngineUnused
    /\ config \in Configs \cup {DefaultConfig}
    /\ loaded = EmptyDocument
    /\ saved = EmptyDocument
    /\ presetLast = "init"
    /\ configBefore = config
    /\ RestUnused

\* Sound2OscEngine::fromState(state), once per run
FromState ==
    /\ loaded = EmptyDocument
    /\ \E c \in Configs, change \in Changes :
          LET state == Change(toState(c), change)
          IN  /\ config' = fromState(config, state)
              /\ loaded' = state
    /\ presetLast' = "fromState"
    /\ configBefore' = config
    /\ UNCHANGED <<saved, filterVars, engineVars, restVars>>

\* Sound2OscEngine::toState()
ToState ==
    /\ presetLast # "toState"
    /\ saved' = toState(config)
    /\ presetLast' = "toState"
    /\ configBefore' = config
    /\ UNCHANGED <<config, loaded, filterVars, engineVars, restVars>>

\* fromState(toState()) on the engine itself
RoundTrip ==
    /\ presetLast # "roundTrip"
    /\ LET state == toState(config)
       IN  /\ config' = fromState(config, state)
           /\ saved' = state
    /\ presetLast' = "roundTrip"
    /\ configBefore' = config
    /\ UNCHANGED <<loaded, filterVars, engineVars, restVars>>

NextPreset ==
    \/ FromState
    \/ ToState
    \/ RoundTrip

SpecPreset == InitPreset /\ [][NextPreset]_vars

\* ------------------------------------------- presets and the event loop
\* The engine, its timers and the GUI controller live in the thread of the
\* application's event loop (apps/gui/main.cpp: app.exec()).  The loop calls
\* one handler at a time: a timer's slot, or the GUI's loadPreset(), which
\* calls fromState().  fromState() writes the four parts of the preset one
\* after the other and never re-enters the loop.  `handler` is "idle" while
\* the loop waits, and otherwise names the part fromState() writes next.

\* no position in fromState() lets the loop call another handler
dispatchable_midHandler(h) == TRUE

\* the loop calls the next handler when the running one has returned
dispatchable(h) == h = "idle"

\* no tick has run; after a tick, `observed` is <<the configuration it read>>
NoObservation == <<>>

\* the documents presets hold here: what toState() writes, as it is or
\* without its bpm object
ApplyDocuments ==
    {Change(toState(c), change) : c \in Configs, change \in {"none", "noBpm"}}

InitApply ==
    /\ FilterUnused
    /\ engine = Sound2OscEngine(TRUE, Thresholds(0, 0))
    /\ tick = NoTick
    /\ engineLast = "init"
    /\ engineBefore = engine
    /\ config \in {DefaultConfig, ConfigOf(TRUE, TRUE, MaxLevel, 0)}
    /\ loaded = EmptyDocument
    /\ saved = EmptyDocument
    /\ presetLast = "init"
    /\ configBefore = config
    /\ handler = "idle"
    /\ observed = NoObservation
    /\ ApplyRestUnused

ApplyStart ==
    /\ dispatchable(handler)
    /\ Start

ApplyStop ==
    /\ dispatchable(handler)
    /\ Stop

\* MainController::loadPreset() calls fromState(state): the global settings
LoadPresetGlobal ==
    /\ dispatchable(handler)
    /\ loaded = EmptyDocument
    /\ \E state \in ApplyDocuments :
          /\ loaded' = state
          /\ config' = fromStateGlobal(config, state)
    /\ configBefore' = config
    /\ presetLast' = "fromState"
    /\ handler' = "dsp"
    /\ UNCHANGED <<saved, observed, filterVars, engineVars, applyRest>>

\* fromState(): the DSP settings
LoadPresetDsp ==
    /\ handler = "dsp"
    /\ config' = fromStateDsp(config, loaded)
    /\ handler' = "bpm"
    /\ UNCHANGED <<loaded, saved, presetLast, configBefore, observed>>
    /\ UNCHANGED <<filterVars, engineVars, applyRest>>

\* fromState(): the BPM settings
LoadPresetBpm ==
    /\ handler = "bpm"
    /\ config' = fromStateBpm(config, loaded)
    /\ handler' = "triggers"
    /\ UNCHANGED <<loaded, saved, presetLast, configBefore, observed>>
    /\ UNCHANGED <<filterVars, engineVars, applyRest>>

\* fromState(): the triggers; fromState() and loadPreset() return
LoadPresetTriggers ==
    /\ handler = "triggers"
    /\ config' = fromStateTriggers(config, loaded)
    /\ handler' = "idle"
    /\ UNCHANGED <<loaded, saved, presetLast, configBefore, observed>>
    /\ UNCHANGED <<filterVars, engineVars, applyRest>>

\* the loop delivers m_fftTimer's timeout: onFftTimer() reads the settings
FftTick ==
    /\ dispatchable(handler)
    /\ engine.m_fftTimer
    /\ observed' = <<config>>
    /\ engineLast' = "onFftTimer"
    /\ engineBefore' = engine
    /\ UNCHANGED <<engine, tick, handler, filterVars, presetVars, applyRest>>

\* the loop delivers m_bpmTimer's timeout: onBpmTimer() reads the settings
BpmTick ==
    /\ dispatchable(handler)
    /\ engine.m_bpmTimer
    /\ observed' = <<config>>
    /\ engine' = onBpmTimer(engine)
    /\ engineLast' = "onBpmTimer"
    /\ engineBefore' = engine
    /\ UNCHANGED <<tick, handler, filterVars, presetVars, applyRest>>

NextApply ==
    \/ ApplyStart
    \/ ApplyStop
    \/ LoadPresetGlobal
    \/ LoadPresetDsp
    \/ LoadPresetBpm
    \/ LoadPresetTriggers
    \/ FftTick
    \/ BpmTick

SpecApply == InitApply /\ [][NextApply]_vars

\* ------------------------------------------------ the repeating timers
\* start() starts m_fftTimer and then m_bpmTimer, two repeating timers of
\* the same interval.  The event dispatcher keeps the running timers in a
\* list sorted by deadline (QTimerInfoList) and delivers the due timeouts
\* in activateTimers(): the current time is read once, each due timer is
\* taken from the front of the list, given its next deadline, put back and
\* its slot called.  Deadlines are kept relative to the current time, in
\* ms; a deadline <= 0 is due.  Time does not pass inside an activation: a
\* slot that runs long shows as time passing after it, which is the same to
\* the deadlines, as they are computed from the time read at the start.
\* The rounding of wake-up times of coarse timers and the 5 s status timer
\* are left out.

\* longest time, in ms, the loop is kept from delivering a due timeout
MaxLate == 45

\* most ms that pass in start() between the starts of the two timers
MaxSkew == 1

\* m_fftTimer.setInterval(1000 / 44)
FftIntervalMs == 1000 \div 44

\* m_bpmTimer.setInterval(1000 / 44)
BpmIntervalMs == 1000 \div 44

interval(id) == IF id = "fft" THEN FftIntervalMs ELSE BpmIntervalMs

\* QTimerInfoList::timerInsert(): behind every timer that is not later
timerInsert(list, ti) ==
    LET n == Cardinality({i \in 1..Len(list) : list[i].timeout <= ti.timeout})
    IN  SubSeq(list, 1, n) \o <<ti>> \o SubSeq(list, n + 1, Len(list))

\* a repeating timer that makes up for every deadline it missed
calculateNextTimeout_catchUp(t) ==
    [t EXCEPT !.timeout = t.timeout + interval(t.id)]

\* QTimerInfoList::calculateNextTimeout() of a repeating timer: one
\* interval after the deadline, or after the current time if that is past
calculateNextTimeout(t) ==
    LET next == t.timeout + interval(t.id)
    IN  [t EXCEPT !.timeout = IF next < 0 THEN interval(t.id) ELSE next]

\* QTimer::start() of timer id
registerTimer(list, id) == timerInsert(list, [id |-> id, timeout |-> interval(id)])

\* time passing on the list
elapse(list, ms) ==
    [i \in 1..Len(list) |-> [list[i] EXCEPT !.timeout = list[i].timeout - ms]]

\* the timers after start(): skew ms pass between the two QTimer::start()
startTimers(skew) == registerTimer(elapse(registerTimer(<<>>, "fft"), skew), "bpm")

\* number of due timers
dueCount(list) == Cardinality({i \in 1..Len(list) : list[i].timeout <= 0})

NoFiring == [id |-> "none", late |-> 0, next |-> 0, fftNotLater |-> FALSE]

\* timer id is in the list with a deadline that is not after deadline d
pendingNotLater(list, id, d) ==
    \E i \in 1..Len(list) : list[i].id = id /\ list[i].timeout <= d

InitTimers ==
    /\ FilterUnused
    /\ engine = Sound2OscEngine(TRUE, Thresholds(0, 0))
    /\ tick = NoTick
    /\ engineLast = "init"
    /\ engineBefore = engine
    /\ PresetUnused
    /\ timerList = <<>>
    /\ maxCount = 0
    /\ firstTimerInfo = "none"
    /\ fired = NoFiring
    /\ TimersRestUnused

\* start(): nothing if running, else both timers are started
TimersStart ==
    /\ maxCount = 0
    /\ engine' = start(engine)
    /\ IF engine.m_running THEN UNCHANGED timerList
       ELSE \E skew \in 0..MaxSkew : timerList' = startTimers(skew)
    /\ engineLast' = "start"
    /\ engineBefore' = engine
    /\ UNCHANGED <<maxCount, firstTimerInfo, fired>>
    /\ UNCHANGED <<tick, filterVars, presetVars, timersRest>>

\* stop(): both timers are stopped
TimersStop ==
    /\ maxCount = 0
    /\ engine' = stop(engine)
    /\ timerList' = IF engine.m_running THEN <<>> ELSE timerList
    /\ engineLast' = "stop"
    /\ engineBefore' = engine
    /\ UNCHANGED <<maxCount, firstTimerInfo, fired>>
    /\ UNCHANGED <<tick, filterVars, presetVars, timersRest>>

\* one ms passes while the loop waits or is kept busy
TimePasses ==
    /\ maxCount = 0
    /\ timerList # <<>>
    /\ \A i \in 1..Len(timerList) : timerList[i].timeout > -MaxLate
    /\ timerList' = elapse(timerList, 1)
    /\ UNCHANGED <<maxCount, firstTimerInfo, fired>>
    /\ UNCHANGED <<engineVars, filterVars, presetVars, timersRest>>

\* activateTimers() begins: the due timers are counted
ActivateTimers ==
    /\ maxCount = 0
    /\ dueCount(timerList) > 0
    /\ maxCount' = dueCount(timerList)
    /\ firstTimerInfo' = "none"
    /\ UNCHANGED <<timerList, fired>>
    /\ UNCHANGED <<engineVars, filterVars, presetVars, timersRest>>

\* activateTimers() stops here if the front timer is not due, or is the
\* timer it delivered last
activateBreak(list, first) ==
    \/ list = <<>>
    \/ Head(list).timeout > 0
    \/ Head(list).id = first

\* activateTimers() delivers the timeout of the front timer
deliver(id) ==
    /\ maxCount > 0
    /\ Head(timerList).id = id
    /\ LET t    == Head(timerList)
           next == calculateNextTimeout(t)
           list == timerInsert(Tail(timerList), next)
       IN  /\ timerList' = list
           /\ fired' = [ id   |-> id,
                         late |-> -t.timeout,
                         next |-> next.timeout,
                         fftNotLater |->
                             pendingNotLater(Tail(timerList), "fft", t.timeout) ]
           /\ maxCount' = IF activateBreak(list, id) THEN 0 ELSE maxCount - 1
    /\ firstTimerInfo' = id
    /\ engineBefore' = engine
    /\ UNCHANGED <<tick, filterVars, presetVars, timersRest>>

\* m_fftTimer's timeout: onFftTimer()
TimerFft ==
    /\ deliver("fft")
    /\ engineLast' = "onFftTimer"
    /\ UNCHANGED engine

\* m_bpmTimer's timeout: onBpmTimer()
TimerBpm ==
    /\ deliver("bpm")
    /\ engineLast' = "onBpmTimer"
    /\ engine' = onBpmTimer(engine)

NextTimers ==
    \/ TimersStart
    \/ TimersStop
    \/ TimePasses
    \/ ActivateTimers
    \/ TimerFft
    \/ TimerBpm

SpecTimers == InitTimers /\ [][NextTimers]_vars

\* ------------------------------------------- the detectors' emissions
\* An FFT tick calls the six detectors in the order of m_triggerInterfaces;
\* a detector calls triggerOn() or triggerOff() on its filter, which starts
\* or stops single-shot timers.  The on and off signals are sent by the
\* timers' slots, which the event loop calls after the tick in the order
\* of the dispatcher's timer list (by deadline, equal deadlines in the order
\* in which the timers were started).  An entry of the list names the
\* detector and the timer and holds the ms left.  The delays of the filters
\* are shorter than the 22 ms between two ticks, so the timers a tick
\* started have timed out when the next tick runs.  The counters of sent
\* signals are cleared after every slot; `wire` keeps what was sent.

FilterTimerNames == <<"m_onDelayTimer", "m_maxHoldTimer", "m_offDelayTimer">>

\* position of detector d in m_triggerInterfaces
indexOf(d) == CHOOSE i \in 1..Len(Detectors) : Detectors[i] = d

\* the list after a call turned filter f of detector d into g: timers that
\* were started join the list, timers that were stopped leave it
RECURSIVE syncTimers(_, _, _, _, _)
syncTimers(list, d, f, g, k) ==
    IF k > Len(FilterTimerNames) THEN list
    ELSE LET name == FilterTimerNames[k]
             kept == IF isActive(g[name]) /\ isActive(f[name]) THEN list
                     ELSE SelectSeq(list,
                              LAMBDA t : ~(t.id = d /\ t.timer = name))
             next == IF isActive(g[name]) /\ ~isActive(f[name])
                     THEN timerInsert(kept, [ id |-> d, timer |-> name,
                                              timeout |-> g[name] ])
                     ELSE kept
         IN  syncTimers(next, d, f, g, k + 1)

\* the filter after the call its detector made in the tick
detectorCall(f, t) == IF t.triggerOn = 1 THEN triggerOn(f) ELSE triggerOff(f)

\* FFTAnalyzer::calculateFFT(): the detectors from position i on make
\* their calls; s holds the filters and the timer list
RECURSIVE runDetectors(_, _, _)
runDetectors(i, s, calls) ==
    IF i > Len(Detectors) THEN s
    ELSE LET d == Detectors[i]
             f == s.filters[d]
             g == detectorCall(f, calls[d])
         IN  runDetectors(i + 1,
                 [ filters |-> [s.filters EXCEPT ![d] = g],
                   list    |-> syncTimers(s.list, d, f, g, 1) ],
                 calls)

\* the slot of a filter's timer
timerSlot(f, name) ==
    CASE name = "m_onDelayTimer"  -> onOnDelayEnd(f)
      [] name = "m_maxHoldTimer"  -> onMaxHoldEnd(f)
      [] name = "m_offDelayTimer" -> onOffDelayEnd(f)

\* the filter with its counters of sent signals cleared
cleared(f) ==
    [f EXCEPT !.onSignalSent = 0, !.offSignalSent = 0,
              !.oscOnSent = 0, !.oscOffSent = 0]

InitOrder ==
    /\ FilterUnused
    /\ engine = start(Sound2OscEngine(TRUE, Thresholds(MaxLevel, MaxLevel)))
    /\ tick = NoTick
    /\ engineLast = "start"
    /\ engineBefore = engine
    /\ PresetUnused
    /\ \E bass \in Delays, loMid \in Delays :
          filters = [d \in DetectorSet |->
              TriggerFilter(FALSE,
                            CASE d = "bass" -> bass
                              [] d = "loMid" -> loMid
                              [] OTHER -> 0,
                            0, 0, TRUE, TRUE)]
    /\ filterTimers = <<>>
    /\ wire = <<>>
    /\ OrderRestUnused

\* m_fftTimer's timeout: onFftTimer() runs the detectors on the spectrum
OrderFftTick ==
    /\ filterTimers = <<>>
    /\ \E spectrum \in Spectra :
          LET calls == onFftTimer(engine, spectrum)
              s == runDetectors(1, [filters |-> filters,
                                    list |-> filterTimers], calls)
          IN  /\ filters' = s.filters
              /\ filterTimers' = s.list
    /\ wire' = <<>>
    /\ engineLast' = "onFftTimer"
    /\ UNCHANGED <<engine, tick, engineBefore, filterVars, presetVars, orderRest>>

\* the event loop calls the slot of the first timer of the list, which is due
OrderTimeout ==
    /\ filterTimers # <<>>
    /\ Head(filterTimers).timeout <= 0
    /\ LET t == Head(filterTimers)
           f == filters[t.id]
           g == timerSlot(f, t.timer)
       IN  /\ filters' = [filters EXCEPT ![t.id] = cleared(g)]
           /\ filterTimers' = syncTimers(filterTimers, t.id, f, g, 1)
           /\ wire' = IF g.oscOnSent + g.oscOffSent > 0
                      THEN Append(wire, t.id) ELSE wire
    /\ engineLast' = "timeout"
    /\ UNCHANGED <<engine, tick, engineBefore, filterVars, presetVars, orderRest>>

\* one ms passes; a due timeout is delivered first
OrderTimePasses ==
    /\ filterTimers # <<>>
    /\ Head(filterTimers).timeout > 0
    /\ filters' = [d \in DetectorSet |-> advanceTime(filters[d])]
    /\ filterTimers' = elapse(filterTimers, 1)
    /\ UNCHANGED <<wire, engineVars, filterVars, presetVars, orderRest>>

NextOrder ==
    \/ OrderFftTick
    \/ OrderTimeout
    \/ OrderTimePasses

SpecOrder == InitOrder /\ [][NextOrder]_vars

\* ---------------------------------------------------------- RingBuffer
\* The ring of float samples between the audio input and the FFT: the
\* producer pushes blocks of samples, the consumer copies the most recent N.
\* The program's frame has 4096 samples and the ring four frames; here a
\* frame has FrameSize samples.  A sample is 1 or 2, so that it differs
\* from the 0 that fills a cell never written.

\* samples of an AudioFrame (4096 in the program)
FrameSize == 2

\* capacity of the ring: 4 x N
Capacity == 4 * FrameSize

\* most samples pushed in one run: enough to overrun the ring
MaxPushed == Capacity + 1

Samples == {1, 2}

\* the ring after construction
RingBuffer == [ cells |-> [i \in 0..(Capacity - 1) |-> 0], cursor |-> 0 ]

\* push(samples): each sample is written at the cursor modulo the capacity
RECURSIVE push(_, _)
push(r, samples) ==
    IF samples = <<>> THEN r
    ELSE push([ cells  |-> [r.cells EXCEPT ![r.cursor % Capacity] = Head(samples)],
                cursor |-> r.cursor + 1 ],
              Tail(samples))

\* a snapshot that reads the ring as a queue, from its oldest sample on
snapshot_last_fromOldest(r, n) ==
    [i \in 1..n |-> r.cells[(r.cursor - Capacity + i - 1) % Capacity]]

\* snapshot_last(N): the cells from cursor - N on, modulo the capacity
snapshot_last(r, n) ==
    [i \in 1..n |-> r.cells[(r.cursor - n + i - 1) % Capacity]]

InitRing ==
    /\ FilterUnused
    /\ EngineUnused
    /\ PresetUnused
    /\ ring = RingBuffer
    /\ pushed = <<>>
    /\ frame = <<>>
    /\ RingRestUnused

\* the audio input pushes a block of one or two samples
Push ==
    /\ \E a \in Samples, b \in Samples, len \in 1..2 :
          LET samples == SubSeq(<<a, b>>, 1, len)
          IN  /\ Len(pushed) + len <= MaxPushed
              /\ ring' = push(ring, samples)
              /\ pushed' = pushed \o samples
    /\ frame' = <<>>
    /\ UNCHANGED <<filterVars, engineVars, presetVars, ringRest>>

\* the consumer copies the n most recent samples
SnapshotLast ==
    /\ frame = <<>>
    /\ \E n \in 1..Capacity : frame' = snapshot_last(ring, n)
    /\ UNCHANGED <<ring, pushed, filterVars, engineVars, presetVars, ringRest>>

NextRing ==
    \/ Push
    \/ SnapshotLast

SpecRing == InitRing /\ [][NextRing]_vars

\* ------------------------------------------------------ the send queue
\* The OSC emitter queues its messages for the transport, which takes them
\* from the front.  The program's queue holds 256 messages; here it holds
\* QueueCapacity.  A message is numbered in the order of queueing.

\* messages the queue holds (256 in the program)
QueueCapacity == 3

\* most messages queued in one run
MaxMessages == 6

Transports == {"udp", "tcp"}

\* a queue that, when full, refuses the new message
enqueue_dropsNewest(q, m) ==
    IF Len(q.messages) >= QueueCapacity
    THEN [q EXCEPT !.dropped = @ + 1]
    ELSE [q EXCEPT !.messages = Append(@, m)]

\* a message is queued; on overflow the oldest message is dropped
enqueue(q, m) ==
    IF Len(q.messages) >= QueueCapacity
    THEN [ messages |-> Append(Tail(q.messages), m), dropped |-> q.dropped + 1 ]
    ELSE [q EXCEPT !.messages = Append(@, m)]

\* the transport takes the message at the front
dequeue(q) == [q EXCEPT !.messages = Tail(@)]

InitQueue ==
    /\ FilterUnused
    /\ EngineUnused
    /\ PresetUnused
    /\ sendQueue = [ messages |-> <<>>, dropped |-> 0 ]
    /\ queueBefore = sendQueue
    /\ queueLast = "init"
    /\ nextMessage = 1
    /\ QueueRestUnused

\* the emitter queues a message for one of the transports
Enqueue ==
    /\ nextMessage <= MaxMessages
    /\ \E transport \in Transports :
          sendQueue' = enqueue(sendQueue, [ number |-> nextMessage,
                                            transport |-> transport ])
    /\ queueBefore' = sendQueue
    /\ queueLast' = "enqueue"
    /\ nextMessage' = nextMessage + 1
    /\ UNCHANGED <<filterVars, engineVars, presetVars, queueRest>>

\* the transport sends the message at the front
Send ==
    /\ sendQueue.messages # <<>>
    /\ sendQueue' = dequeue(sendQueue)
    /\ queueBefore' = sendQueue
    /\ queueLast' = "send"
    /\ UNCHANGED <<nextMessage, filterVars, engineVars, presetVars, queueRest>>

NextQueue ==
    \/ Enqueue
    \/ Send

SpecQueue == InitQueue /\ [][NextQueue]_vars

\* ------------------------------------------------------ OSC encoding
\* A packet is a sequence of bytes.  A string is a sequence of non-zero
\* bytes, an int32 is a signed integer, a float32 is its 32 bit pattern
\* read as a signed integer.

\* most arguments added to one writer
MaxArgs == 2

Slash == 47
Comma == 44
TagInt32 == 105
TagFloat32 == 102
TagString == 115
TagBlob == 98

Int32Arg(v) == [ type |-> TagInt32, n |-> v, bytes |-> <<>> ]
Float32Arg(bits) == [ type |-> TagFloat32, n |-> bits, bytes |-> <<>> ]
StringArg(s) == [ type |-> TagString, n |-> 0, bytes |-> s ]
BlobArg(b) == [ type |-> TagBlob, n |-> 0, bytes |-> b ]

\* the addresses, integers, float bit patterns, strings and blobs written
Paths == { <<Slash>>, <<Slash, 97>>, <<Slash, 97, 98>>, <<Slash, 97, 47, 98>> }
Int32s == { 0, 42, -1, 2147483647, -2147483647 - 1 }
Float32s == { 0, 1078523331, -4194304 }
Strings == { <<>>, <<104>>, <<104, 101, 108>>, <<104, 101, 108, 108>> }
Blobs == { <<>>, <<0>>, <<1, 0, 255, 0, 2>> }

zeros(n) == [i \in 1..n |-> 0]

\* bytes up to the next 4-byte boundary
padding(len) == zeros((4 - (len % 4)) % 4)

\* the 32 bits of a signed integer, most significant byte first
bigEndian(u) == << (u \div 16777216) % 256, (u \div 65536) % 256, (u \div 256) % 256, u % 256 >>

fromBigEndian(data, at) == (IF data[at] >= 128 THEN data[at] - 256 ELSE data[at]) * 16777216 + data[at + 1] * 65536 + data[at + 2] * 256 + data[at + 3]

\* a string written without its terminator when its length is a multiple of 4
writeString_unterminated(s) == IF Len(s) % 4 = 0 /\ s # <<>> THEN s ELSE s \o <<0>> \o padding(Len(s) + 1)

\* a string: its bytes, a null terminator, padded to 4 bytes
writeString(s) == s \o <<0>> \o padding(Len(s) + 1)

\* one argument, padded to 4 bytes
writeArg(a) ==
    CASE a.type = TagInt32 -> bigEndian(a.n)
      [] a.type = TagFloat32 -> bigEndian(a.n)
      [] a.type = TagString -> writeString(a.bytes)
      [] a.type = TagBlob -> bigEndian(Len(a.bytes)) \o a.bytes \o padding(Len(a.bytes))

RECURSIVE writeArgs(_)
writeArgs(args) == IF args = <<>> THEN <<>> ELSE writeArg(Head(args)) \o writeArgs(Tail(args))

OSCPacketWriter(path) == [ path |-> path, args |-> <<>> ]

\* the packet: address, type tag string, arguments in the order added
Create(w) ==
    writeString(w.path)
        \o writeString(<<Comma>> \o [i \in 1..Len(w.args) |-> w.args[i].type])
        \o writeArgs(w.args)

\* the position of the first null byte at or after at, 0 if there is none
RECURSIVE terminator(_, _)
terminator(data, at) ==
    IF at > Len(data) THEN 0
    ELSE IF data[at] = 0 THEN at
    ELSE terminator(data, at + 1)

\* a string read at a position, and the position after its padding
readString(data, at) ==
    LET end == terminator(data, at)
    IN  IF end = 0
        THEN [ ok |-> FALSE, bytes |-> <<>>, next |-> at ]
        ELSE [ ok |-> TRUE,
               bytes |-> SubSeq(data, at, end - 1),
               next |-> at + 4 * ((end - at + 4) \div 4) ]

\* the arguments named by the type tags, read from a position on
RECURSIVE readArgs(_, _, _, _)
readArgs(data, at, tags, args) ==
    IF tags = <<>> THEN [ ok |-> at = Len(data) + 1, args |-> args ]
    ELSE IF Head(tags) \in {TagInt32, TagFloat32}
    THEN IF at + 3 > Len(data) THEN [ ok |-> FALSE, args |-> args ]
         ELSE LET u == fromBigEndian(data, at)
                  a == IF Head(tags) = TagFloat32 THEN Float32Arg(u) ELSE Int32Arg(u)
              IN  readArgs(data, at + 4, Tail(tags), Append(args, a))
    ELSE IF Head(tags) = TagString
    THEN LET s == readString(data, at)
         IN  IF ~s.ok THEN [ ok |-> FALSE, args |-> args ]
             ELSE readArgs(data, s.next, Tail(tags), Append(args, StringArg(s.bytes)))
    ELSE IF Head(tags) = TagBlob
    THEN IF at + 3 > Len(data) THEN [ ok |-> FALSE, args |-> args ]
         ELSE LET size == fromBigEndian(data, at)
                  next == at + 4 + size + Len(padding(size))
              IN  IF size < 0 \/ next > Len(data) + 1 THEN [ ok |-> FALSE, args |-> args ]
                  ELSE readArgs(data, next, Tail(tags),
                                Append(args, BlobArg(SubSeq(data, at + 4, at + 3 + size))))
    ELSE [ ok |-> FALSE, args |-> args ]

InvalidMessage == [ valid |-> FALSE, path |-> <<>>, arguments |-> <<>> ]

\* the message parsed from a packet
OSCMessage(data) ==
    LET path == readString(data, 1)
        tags == readString(data, path.next)
        args == readArgs(data, tags.next, Tail(tags.bytes), <<>>)
    IN  IF ~path.ok \/ path.bytes = <<>> \/ Head(path.bytes) # Slash THEN InvalidMessage
        ELSE IF ~tags.ok \/ tags.bytes = <<>> \/ Head(tags.bytes) # Comma THEN InvalidMessage
        ELSE IF ~args.ok THEN InvalidMessage
        ELSE [ valid |-> TRUE, path |-> path.bytes, arguments |-> args.args ]

InitOsc ==
    /\ FilterUnused
    /\ EngineUnused
    /\ PresetUnused
    /\ \E path \in Paths : writer = OSCPacketWriter(path)
    /\ packet = <<>>
    /\ message = <<>>
    /\ OscRestUnused

AddArg(a) ==
    /\ packet = <<>>
    /\ Len(writer.args) < MaxArgs
    /\ writer' = [writer EXCEPT !.args = Append(@, a)]
    /\ UNCHANGED <<packet, message, filterVars, engineVars, presetVars, oscRest>>

AddInt32 == \E v \in Int32s : AddArg(Int32Arg(v))

AddFloat32 == \E bits \in Float32s : AddArg(Float32Arg(bits))

AddString == \E s \in Strings : AddArg(StringArg(s))

AddBlob == \E b \in Blobs : AddArg(BlobArg(b))

\* the writer creates the packet
CreatePacket ==
    /\ packet = <<>>
    /\ packet' = <<Create(writer)>>
    /\ UNCHANGED <<writer, message, filterVars, engineVars, presetVars, oscRest>>

\* the packet is parsed
ParsePacket ==
    /\ packet # <<>>
    /\ message = <<>>
    /\ message' = <<OSCMessage(packet[1])>>
    /\ UNCHANGED <<writer, packet, filterVars, engineVars, presetVars, oscRest>>

NextOsc ==
    \/ AddInt32
    \/ AddFloat32
    \/ AddString
    \/ AddBlob
    \/ CreatePacket
    \/ ParsePacket

SpecOsc == InitOsc /\ [][NextOsc]_vars

\* ---------------------------------------------------- JsonConfigStore
\* The store keeps its settings in m_root["settings"], a JSON object whose
\* members are values or groups of values.  A key is the list of the pieces
\* between its slashes; "" is <<"">>, "a/b" is <<"a", "b">>.  save() is
\* modelled step by step, and each step that can fail in the file system
\* fails or succeeds; the mutex keeps other calls out while it runs.

Names == {"a", "b"}

Keys == { <<"">>, <<"a">>, <<"a", "b">>, <<"a", "b", "c">> }

\* QVariant
IntVariant(n) == [ type |-> "Int", n |-> n, s |-> "" ]
DoubleVariant(n) == [ type |-> "Double", n |-> n, s |-> "" ]
StringVariant(s) == [ type |-> "QString", n |-> 0, s |-> s ]
RectVariant(n) == [ type |-> "QRect", n |-> n, s |-> "" ]
MapVariant == [ type |-> "QVariantMap", n |-> 0, s |-> "" ]
InvalidVariant == [ type |-> "Invalid", n |-> 0, s |-> "" ]

\* the values stored and the defaults asked with
Values == { IntVariant(1), RectVariant(1) }
Defaults == { IntVariant(2) }

\* QJsonValue: a member of a group
Undefined == [ type |-> "Undefined", n |-> 0, s |-> "" ]
JsonDouble(n) == [ type |-> "Double", n |-> n, s |-> "" ]
JsonString(s) == [ type |-> "String", n |-> 0, s |-> s ]

\* QJsonObject: a group, and the group with no members
QJsonObject == [name \in Names |-> Undefined]

\* QJsonValue: a member of the settings, a value or a group
Member(j) == [ type |-> j.type, n |-> j.n, s |-> j.s, members |-> QJsonObject ]
Group(members) == [ type |-> "Object", n |-> 0, s |-> "", members |-> members ]

groupOf(j) == IF j.type = "Object" THEN j.members ELSE QJsonObject

groupContains(object, name) == name \in DOMAIN object /\ object[name].type # "Undefined"

\* QVariant::toString
toString(v) == IF v.type = "QString" THEN v.s ELSE ""

variantToJson(v) ==
    CASE v.type \in {"Int", "Double"} -> JsonDouble(v.n)
      [] v.type = "QString" -> JsonString(v.s)
      [] OTHER -> JsonString(toString(v))

jsonToVariant(j) ==
    CASE j.type = "Double" -> DoubleVariant(j.n)
      [] j.type = "String" -> StringVariant(j.s)
      [] j.type = "Object" -> MapVariant
      [] OTHER -> InvalidVariant

\* the non-empty pieces of a key
splitKey(key) == SelectSeq(key, LAMBDA part : part # "")

\* m_root after ensureStructure
ensureStructure == [ settings |-> [name \in Names |-> Member(Undefined)] ]

JsonConfigStore(filePath) == [ m_filePath |-> filePath, m_root |-> ensureStructure, m_dirty |-> FALSE ]

getValue(st, key, defaultValue) ==
    LET parts == splitKey(key)
        settings == st.m_root.settings
    IN  IF parts = <<>> THEN defaultValue
        ELSE IF Len(parts) = 1 /\ groupContains(settings, parts[1])
        THEN jsonToVariant(settings[parts[1]])
        ELSE IF Len(parts) = 2 /\ parts[1] \in Names /\ groupContains(groupOf(settings[parts[1]]), parts[2])
        THEN jsonToVariant(groupOf(settings[parts[1]])[parts[2]])
        ELSE defaultValue

\* a store that sets m_dirty only when it stored the value
setValue_dirtyWhenStored(st, key, value) ==
    LET parts == splitKey(key)
        settings == st.m_root.settings
    IN  IF Len(parts) = 1
        THEN [st EXCEPT !.m_root.settings[parts[1]] = Member(variantToJson(value)), !.m_dirty = TRUE]
        ELSE IF Len(parts) = 2
        THEN [st EXCEPT !.m_root.settings[parts[1]] = Group([groupOf(settings[parts[1]]) EXCEPT ![parts[2]] = variantToJson(value)]), !.m_dirty = TRUE]
        ELSE st

setValue(st, key, value) ==
    LET parts == splitKey(key)
        settings == st.m_root.settings
    IN  IF parts = <<>> THEN st
        ELSE IF Len(parts) = 1
        THEN [st EXCEPT !.m_root.settings[parts[1]] = Member(variantToJson(value)), !.m_dirty = TRUE]
        ELSE IF Len(parts) = 2
        THEN [st EXCEPT !.m_root.settings[parts[1]] = Group([groupOf(settings[parts[1]]) EXCEPT ![parts[2]] = variantToJson(value)]), !.m_dirty = TRUE]
        ELSE [st EXCEPT !.m_dirty = TRUE]

\* a file: missing, or holding a JSON document, whole or in part
NoFile == <<>>
Whole(root) == << [ whole |-> TRUE, root |-> root ] >>
Partial == << [ whole |-> FALSE, root |-> ensureStructure ] >>

ConfigPath == "config.json"

\* no call yet
NoCall == [ op |-> "none", key |-> <<>>, value |-> InvalidVariant, default |-> InvalidVariant, result |-> FALSE, existed |-> FALSE, dirtyBefore |-> FALSE ]

\* no save() in progress: the config file and the data a save() would write
notSaving(file, root) == [ step |-> "idle", destroying |-> FALSE, previous |-> file, data |-> root ]

\* no value stored for any key path
NothingStored == [key \in {splitKey(k) : k \in Keys} \ {<<>>} |-> <<>>]

InitStore ==
    /\ FilterUnused
    /\ EngineUnused
    /\ PresetUnused
    /\ \E filePath \in {"", ConfigPath} : store = JsonConfigStore(filePath)
    /\ \E file \in {NoFile, Whole(ensureStructure)} :
          /\ disk = [ file |-> file, temp |-> NoFile ]
          /\ saving = notSaving(file, ensureStructure)
    /\ call = NoCall
    /\ stored = [ memory |-> NothingStored, file |-> NothingStored ]
    /\ StoreRestUnused

StoreSetValue ==
    /\ saving.step = "idle"
    /\ \E key \in Keys, value \in Values :
          /\ store' = setValue(store, key, value)
          /\ call' = [NoCall EXCEPT !.op = "setValue", !.key = key, !.dirtyBefore = store.m_dirty]
          /\ stored' = IF splitKey(key) = <<>> THEN stored
                       ELSE [stored EXCEPT !.memory[splitKey(key)] = <<value>>]
    /\ saving' = notSaving(disk.file, store'.m_root)
    /\ UNCHANGED <<disk, filterVars, engineVars, presetVars, storeRest>>

StoreGetValue ==
    /\ saving.step = "idle"
    /\ \E key \in Keys, defaultValue \in Defaults :
          call' = [NoCall EXCEPT !.op = "getValue", !.key = key, !.default = defaultValue,
                                 !.value = getValue(store, key, defaultValue),
                                 !.dirtyBefore = store.m_dirty]
    /\ saving' = notSaving(disk.file, store.m_root)
    /\ UNCHANGED <<store, disk, stored, filterVars, engineVars, presetVars, storeRest>>

\* load() that empties m_root before it reads the file
load_clearsFirst(st, file, opened) ==
    IF st.m_filePath = "" THEN [ result |-> FALSE, store |-> st ]
    ELSE IF file = NoFile THEN [ result |-> TRUE, store |-> [st EXCEPT !.m_dirty = TRUE] ]
    ELSE IF ~opened \/ ~file[1].whole
         THEN [ result |-> FALSE,
                store |-> [st EXCEPT !.m_root = ensureStructure, !.m_dirty = FALSE] ]
    ELSE [ result |-> TRUE, store |-> [st EXCEPT !.m_root = file[1].root, !.m_dirty = FALSE] ]

\* load(): what it returns and what it leaves in the store
load(st, file, opened) ==
    IF st.m_filePath = "" THEN [ result |-> FALSE, store |-> st ]
    ELSE IF file = NoFile THEN [ result |-> TRUE, store |-> [st EXCEPT !.m_dirty = TRUE] ]
    ELSE IF ~opened THEN [ result |-> FALSE, store |-> st ]
    ELSE IF ~file[1].whole THEN [ result |-> FALSE, store |-> st ]
    ELSE [ result |-> TRUE, store |-> [st EXCEPT !.m_root = file[1].root, !.m_dirty = FALSE] ]

StoreLoad ==
    /\ saving.step = "idle"
    /\ \E opened \in BOOLEAN :
          LET l == load(store, disk.file, opened)
          IN  /\ store' = l.store
              /\ call' = [NoCall EXCEPT !.op = "load", !.result = l.result,
                                        !.existed = disk.file # NoFile,
                                        !.dirtyBefore = store.m_dirty]
              /\ stored' = IF l.result /\ disk.file # NoFile
                           THEN [stored EXCEPT !.memory = stored.file]
                           ELSE stored
    /\ saving' = notSaving(disk.file, store'.m_root)
    /\ UNCHANGED <<disk, filterVars, engineVars, presetVars, storeRest>>

\* save() returns; the destructor's save() ends the instance and the next
\* instance is constructed
saveReturns(result, st) ==
    /\ saving' = [saving EXCEPT !.step = "idle", !.destroying = FALSE]
    /\ call' = [NoCall EXCEPT !.op = IF saving.destroying THEN "destroy" ELSE "save",
                              !.result = result, !.dirtyBefore = store.m_dirty]
    /\ store' = IF saving.destroying THEN JsonConfigStore(store.m_filePath) ELSE st
    /\ stored' = [ memory |-> IF saving.destroying THEN NothingStored ELSE stored.memory,
                   file |-> IF result THEN stored.memory ELSE stored.file ]

\* save() up to the opened temporary file
saveOpens(destroying) ==
    /\ saving.step = "idle"
    /\ \E created \in BOOLEAN, opened \in BOOLEAN :
          IF store.m_filePath = "" \/ ~created \/ ~opened
          THEN /\ saving' = notSaving(disk.file, store.m_root)
               /\ call' = [NoCall EXCEPT !.op = IF destroying THEN "destroy" ELSE "save",
                                         !.dirtyBefore = store.m_dirty]
               /\ store' = IF destroying THEN JsonConfigStore(store.m_filePath) ELSE store
               /\ stored' = IF destroying THEN [stored EXCEPT !.memory = NothingStored] ELSE stored
               /\ UNCHANGED disk
          ELSE /\ saving' = [ step |-> "write", destroying |-> destroying,
                              previous |-> disk.file, data |-> store.m_root ]
               /\ disk' = [disk EXCEPT !.temp = Partial]
               /\ UNCHANGED <<store, call, stored>>
    /\ UNCHANGED <<filterVars, engineVars, presetVars, storeRest>>

StoreSave == saveOpens(FALSE)

\* file << data, and the check of file.fail()
SaveWrite ==
    /\ saving.step = "write"
    /\ \E failed \in BOOLEAN :
          IF failed
          THEN /\ disk' = [disk EXCEPT !.temp = NoFile]
               /\ saveReturns(FALSE, store)
          ELSE /\ saving' = [saving EXCEPT !.step = "close"]
               /\ UNCHANGED <<store, disk, call, stored>>
    /\ UNCHANGED <<filterVars, engineVars, presetVars, storeRest>>

\* file.close() writes what the stream still buffers; its result is not looked at
SaveClose ==
    /\ saving.step = "close"
    /\ \E flushed \in BOOLEAN :
          disk' = [disk EXCEPT !.temp = IF flushed THEN Whole(saving.data) ELSE Partial]
    /\ saving' = [saving EXCEPT !.step = "rename"]
    /\ UNCHANGED <<store, call, stored, filterVars, engineVars, presetVars, storeRest>>

\* std::filesystem::rename of the temporary file onto the config file
SaveRename ==
    /\ saving.step = "rename"
    /\ \E renamed \in BOOLEAN :
          IF renamed
          THEN /\ disk' = [ file |-> disk.temp, temp |-> NoFile ]
               /\ saveReturns(TRUE, [store EXCEPT !.m_dirty = FALSE])
          ELSE /\ UNCHANGED disk
               /\ saveReturns(FALSE, store)
    /\ UNCHANGED <<filterVars, engineVars, presetVars, storeRest>>

\* the instance is destroyed, saving first when dirty, and a new one constructed
StoreReopen ==
    IF store.m_dirty
    THEN saveOpens(TRUE)
    ELSE /\ saving.step = "idle"
         /\ store' = JsonConfigStore(store.m_filePath)
         /\ call' = [NoCall EXCEPT !.op = "destroy", !.dirtyBefore = store.m_dirty]
         /\ stored' = [stored EXCEPT !.memory = NothingStored]
         /\ saving' = notSaving(disk.file, store'.m_root)
         /\ UNCHANGED <<disk, filterVars, engineVars, presetVars, storeRest>>

NextStore ==
    \/ StoreSetValue
    \/ StoreGetValue
    \/ StoreLoad
    \/ StoreSave
    \/ SaveWrite
    \/ SaveClose
    \/ SaveRename
    \/ StoreReopen

SpecStore == InitStore /\ [][NextStore]_vars

\* ------------------------------------------- JsonConfigStore and its mutex
\* Two threads call public methods of one store.  A method that starts with
\* QMutexLocker locker(&m_mutex) takes the mutex, touches the members and
\* gives the mutex back on return; sync() looks at m_dirty first and calls
\* save() when it is set.

Threads == {1, 2}

Free == 0

\* the methods that lock on entry, and what their body does to the members
Readers == {"getValue", "isDirty"}
Writers == {"setValue", "load", "save"}
Methods == Readers \cup Writers \cup {"sync"}

\* versions of m_root
Roots == {0, 1}

Outside == [ method |-> "none", pc |-> "outside" ]

\* a member read or written by a thread, and the holder of the mutex then
Access(t, member, kind) == << [ thread |-> t, member |-> member, kind |-> kind, holder |-> m_mutex ] >>

\* another thread is inside a method that writes the members
writerInside(t) == \E u \in Threads \ {t} : threads[u].pc = "body" /\ threads[u].method \in Writers

InitLock ==
    /\ FilterUnused
    /\ EngineUnused
    /\ PresetUnused
    /\ m_mutex = Free
    /\ threads = [t \in Threads |-> Outside]
    /\ shared = [ m_root |-> 0, m_dirty |-> FALSE ]
    /\ lastAccess = <<>>
    /\ LockRestUnused

\* a thread calls a public method
Call(t) ==
    /\ threads[t].pc = "outside"
    /\ \E method \in Methods :
          threads' = [threads EXCEPT ![t] = [ method |-> method, pc |-> IF method = "sync" THEN "check" ELSE "lock" ]]
    /\ UNCHANGED <<m_mutex, shared, lastAccess, filterVars, engineVars, presetVars, lockRest>>

\* QMutexLocker locker(&m_mutex)
Lock(t) ==
    /\ threads[t].pc = "lock"
    /\ m_mutex = Free
    /\ m_mutex' = t
    /\ threads' = [threads EXCEPT ![t].pc = "body"]
    /\ UNCHANGED <<shared, lastAccess, filterVars, engineVars, presetVars, lockRest>>

\* the body of a locking method
Body(t) ==
    /\ threads[t].pc = "body"
    /\ \E root \in Roots, ok \in BOOLEAN :
          LET method == threads[t].method
          IN  /\ shared' = CASE method = "setValue" -> [ m_root |-> root, m_dirty |-> TRUE ]
                              [] method = "load" /\ ok -> [ m_root |-> root, m_dirty |-> FALSE ]
                              [] method = "save" /\ ok -> [shared EXCEPT !.m_dirty = FALSE]
                              [] OTHER -> shared
              /\ lastAccess' = Access(t, IF method = "getValue" THEN "m_root" ELSE "m_dirty",
                                      IF method \in Readers \/ ~ok THEN "read" ELSE "write")
    /\ threads' = [threads EXCEPT ![t].pc = "unlock"]
    /\ UNCHANGED <<m_mutex, filterVars, engineVars, presetVars, lockRest>>

\* the locker goes out of scope and the method returns
Unlock(t) ==
    /\ threads[t].pc = "unlock"
    /\ m_mutex' = Free
    /\ threads' = [threads EXCEPT ![t] = Outside]
    /\ UNCHANGED <<shared, lastAccess, filterVars, engineVars, presetVars, lockRest>>

\* sync(): if (m_dirty) save();  a read that races with a write yields any value
SyncCheck(t) ==
    /\ threads[t].pc = "check"
    /\ \E dirty \in BOOLEAN :
          /\ writerInside(t) \/ dirty = shared.m_dirty
          /\ threads' = [threads EXCEPT ![t] = IF dirty THEN [ method |-> "save", pc |-> "lock" ] ELSE Outside]
    /\ lastAccess' = Access(t, "m_dirty", "read")
    /\ UNCHANGED <<m_mutex, shared, filterVars, engineVars, presetVars, lockRest>>

NextLock ==
    \E t \in Threads :
        \/ Call(t)
        \/ Lock(t)
        \/ Body(t)
        \/ Unlock(t)
        \/ SyncCheck(t)

SpecLock == InitLock /\ [][NextLock]_vars

\* --------------------------------------------------- SettingsMigration
\* main() asks hasLegacySettings() and calls migrate() when the answer is
\* true.  The marker is a key in the application's own QSettings file and
\* outlives the process; the legacy file belongs to the old application,
\* which may write or remove it at any time.

\* most application starts of one run
MaxStarts == 3

\* largest formatVersion in a legacy settings file
MaxFormat == 2

migrationCompleted(marker) == marker.v2_complete

markMigrationComplete(marker) == [marker EXCEPT !.v2_complete = TRUE]

hasLegacySettings(legacy, marker) ==
    IF ~legacy.exists THEN FALSE
    ELSE IF migrationCompleted(marker) THEN FALSE
    ELSE legacy.formatVersion > 0

\* migrate() that marks completion only when everything was migrated
migrate_marksOnSuccess(marker, settingsOk, presetsOk) ==
    [ marker |-> IF settingsOk /\ presetsOk THEN markMigrationComplete(marker) ELSE marker, result |-> settingsOk /\ presetsOk ]

\* migrate(): the marker is set also when a part failed
migrate(marker, settingsOk, presetsOk) ==
    [ marker |-> markMigrationComplete(marker), result |-> settingsOk /\ presetsOk ]

InitMigration ==
    /\ FilterUnused
    /\ EngineUnused
    /\ PresetUnused
    /\ \E exists \in BOOLEAN, formatVersion \in 0..MaxFormat :
          legacyFile = [ exists |-> exists, formatVersion |-> IF exists THEN formatVersion ELSE 0 ]
    /\ markerFile = [ v2_complete |-> FALSE ]
    /\ mainAt = "stopped"
    /\ migrations = [ runs |-> 0, starts |-> 0, result |-> FALSE ]
    /\ hasLegacy = <<>>
    /\ MigrationRestUnused

\* the old application writes or removes its settings file
LegacyWritten ==
    /\ \E exists \in BOOLEAN, formatVersion \in 0..MaxFormat :
          legacyFile' = [ exists |-> exists, formatVersion |-> IF exists THEN formatVersion ELSE 0 ]
    /\ UNCHANGED <<markerFile, mainAt, migrations, hasLegacy, filterVars, engineVars, presetVars, migrationRest>>

\* main() up to its call of hasLegacySettings()
MainStart ==
    /\ mainAt = "stopped"
    /\ migrations.starts < MaxStarts
    /\ hasLegacy' = << [ answer |-> hasLegacySettings(legacyFile, markerFile), migrated |-> migrations.runs > 0 ] >>
    /\ mainAt' = IF hasLegacySettings(legacyFile, markerFile) THEN "migrate" ELSE "running"
    /\ migrations' = [migrations EXCEPT !.starts = @ + 1]
    /\ UNCHANGED <<legacyFile, markerFile, filterVars, engineVars, presetVars, migrationRest>>

\* main() calls migrate(); settings or presets may fail to migrate
Migrate ==
    /\ mainAt = "migrate"
    /\ \E settingsOk \in BOOLEAN, presetsOk \in BOOLEAN :
          LET m == migrate(markerFile, settingsOk, presetsOk)
          IN  /\ markerFile' = m.marker
              /\ migrations' = [migrations EXCEPT !.runs = @ + 1, !.result = m.result]
    /\ mainAt' = "running"
    /\ UNCHANGED <<legacyFile, hasLegacy, filterVars, engineVars, presetVars, migrationRest>>

\* a later call of hasLegacySettings()
HasLegacySettings ==
    /\ mainAt = "running"
    /\ hasLegacy' = << [ answer |-> hasLegacySettings(legacyFile, markerFile), migrated |-> migrations.runs > 0 ] >>
    /\ UNCHANGED <<legacyFile, markerFile, mainAt, migrations, filterVars, engineVars, presetVars, migrationRest>>

\* the application ends
MainExit ==
    /\ mainAt = "running"
    /\ mainAt' = "stopped"
    /\ UNCHANGED <<legacyFile, markerFile, migrations, hasLegacy, filterVars, engineVars, presetVars, migrationRest>>

NextMigration ==
    \/ LegacyWritten
    \/ MainStart
    \/ Migrate
    \/ HasLegacySettings
    \/ MainExit

SpecMigration == InitMigration /\ [][NextMigration]_vars

\* ------------------------------------------------------- PresetManager
\* A file name is a scheme ("", "file://" or "file:///"), a base name and an
\* extension; the empty string has all three empty.

Schemes == {"", "file://", "file:///"}
BaseNames == {"", "a", "autosave"}
Extensions == {"", ".s2o", ".s2l", ".ats"}

FileNames == [ scheme : Schemes, base : BaseNames, ext : Extensions ]

EmptyPath == [ scheme |-> "", base |-> "", ext |-> "" ]

\* m_presetDir + "/autosave.ats"
autosavePath == [ scheme |-> "", base |-> "autosave", ext |-> ".ats" ]

cleanFilePath(rawPath, addExtension) ==
    LET path == [rawPath EXCEPT !.scheme = ""]
    IN  IF addExtension /\ path.ext \notin {".s2o", ".s2l"}
        THEN IF path.ext = "" THEN [path EXCEPT !.ext = ".s2o"]
             ELSE [path EXCEPT !.base = path.base \o path.ext, !.ext = ".s2o"]
        ELSE path

PresetManager == [ m_currentPresetPath |-> EmptyPath, m_hasUnsavedChanges |-> FALSE ]

currentPresetPath(pm) == pm.m_currentPresetPath

\* QFileInfo(m_currentPresetPath).baseName(): up to the first dot
currentPresetName(pm) ==
    IF pm.m_currentPresetPath = EmptyPath THEN ""
    ELSE IF pm.m_currentPresetPath.base \in BaseNames THEN pm.m_currentPresetPath.base
    ELSE CHOOSE b \in BaseNames : \E e \in Extensions : b \o e = pm.m_currentPresetPath.base

\* a call's outcome: the manager after it, what it returned and the signals
Outcome(pm, result, signals) == [ pm |-> pm, result |-> result, signals |-> signals ]

setCurrentPresetPath(pm, path) ==
    IF pm.m_currentPresetPath # path
    THEN Outcome([pm EXCEPT !.m_currentPresetPath = path], TRUE, <<"currentPresetChanged">>)
    ELSE Outcome(pm, TRUE, <<>>)

markAsChanged(pm) ==
    IF ~pm.m_hasUnsavedChanges
    THEN Outcome([pm EXCEPT !.m_hasUnsavedChanges = TRUE], TRUE, <<"unsavedChangesChanged">>)
    ELSE Outcome(pm, TRUE, <<>>)

markAsSaved(pm) ==
    IF pm.m_hasUnsavedChanges
    THEN Outcome([pm EXCEPT !.m_hasUnsavedChanges = FALSE], TRUE, <<"unsavedChangesChanged">>)
    ELSE Outcome(pm, TRUE, <<>>)

clearCurrentPreset(pm) ==
    IF pm.m_currentPresetPath # EmptyPath
    THEN Outcome([ m_currentPresetPath |-> EmptyPath, m_hasUnsavedChanges |-> FALSE ], TRUE, <<"currentPresetChanged", "unsavedChangesChanged">>)
    ELSE Outcome(pm, TRUE, <<>>)

\* a save that makes every marked file the current preset
savePresetFile_alwaysCurrent(pm, fileName, isAutosave, opened) ==
    LET cleanPath == cleanFilePath(fileName, ~isAutosave)
        current == setCurrentPresetPath(pm, cleanPath)
        marked == markAsSaved(current.pm)
    IN  IF cleanPath = EmptyPath \/ ~opened THEN Outcome(pm, FALSE, <<>>)
        ELSE Outcome(marked.pm, TRUE, current.signals \o marked.signals \o <<"presetSaved">>)

\* opened: the file could be opened for writing
savePresetFile(pm, fileName, isAutosave, opened) ==
    LET cleanPath == cleanFilePath(fileName, ~isAutosave)
        current == setCurrentPresetPath(pm, cleanPath)
        marked == markAsSaved(current.pm)
    IN  IF cleanPath = EmptyPath \/ ~opened THEN Outcome(pm, FALSE, <<>>)
        ELSE IF ~isAutosave
        THEN Outcome(marked.pm, TRUE, current.signals \o marked.signals \o <<"presetSaved">>)
        ELSE Outcome(pm, TRUE, <<>>)

saveAutosave(pm, opened) == savePresetFile(pm, autosavePath, TRUE, opened)

InitManager ==
    /\ FilterUnused
    /\ EngineUnused
    /\ PresetUnused
    /\ presetManager = PresetManager
    /\ managerBefore = PresetManager
    /\ saveCall = [ op |-> "new", fileName |-> EmptyPath, isAutosave |-> FALSE, result |-> TRUE, signals |-> <<>> ]
    /\ ManagerRestUnused

\* a call on the manager, recorded with its outcome
called(op, fileName, isAutosave, outcome) ==
    /\ presetManager' = outcome.pm
    /\ managerBefore' = presetManager
    /\ saveCall' = [ op |-> op, fileName |-> fileName, isAutosave |-> isAutosave, result |-> outcome.result, signals |-> outcome.signals ]
    /\ UNCHANGED <<filterVars, engineVars, presetVars, managerRest>>

SavePresetFile ==
    \E fileName \in FileNames, isAutosave \in BOOLEAN, opened \in BOOLEAN :
        called("savePresetFile", fileName, isAutosave, savePresetFile(presetManager, fileName, isAutosave, opened))

SaveAutosave ==
    \E opened \in BOOLEAN :
        called("saveAutosave", autosavePath, TRUE, saveAutosave(presetManager, opened))

MarkAsChanged == called("markAsChanged", EmptyPath, FALSE, markAsChanged(presetManager))

ClearCurrentPreset == called("clearCurrentPreset", EmptyPath, FALSE, clearCurrentPreset(presetManager))

NextManager ==
    \/ SavePresetFile
    \/ SaveAutosave
    \/ MarkAsChanged
    \/ ClearCurrentPreset

SpecManager == InitManager /\ [][NextManager]_vars

\* --------------------------------------------------- stopping the engine
\* The engine in an application with an event loop.  A timer that elapses
\* leaves an event in the event loop, which the main thread delivers to the
\* timer's slot when it is back in the loop; start() and stop() are called
\* from the loop.  In the headless application stop() is also called by
\* signalHandler(), which runs when SIGINT or SIGTERM arrives, wherever
\* the main thread is then.
Slots == {"onFftTimer", "onBpmTimer"}

NoSlot == "none"

NoProcessing == [slot |-> NoSlot, running |-> TRUE]

\* the engine's timer whose timeout is connected to the slot
timerOf(e, s) == IF s = "onFftTimer" THEN e.m_fftTimer ELSE e.m_bpmTimer

InitShutdown ==
    /\ FilterUnused
    /\ \E deviceName \in BOOLEAN, band \in Levels, other \in Levels :
          engine = Sound2OscEngine(deviceName, Thresholds(band, other))
    /\ tick = NoTick
    /\ engineLast = "init"
    /\ engineBefore = engine
    /\ PresetUnused
    /\ inSlot = NoSlot
    /\ posted = {}
    /\ quit = FALSE
    /\ processing = NoProcessing
    /\ ShutdownRestUnused

\* start() called from the event loop, or by main() before it enters it
LoopStart ==
    /\ inSlot = NoSlot
    /\ ~quit
    /\ engine' = start(engine)
    /\ engineLast' = "start"
    /\ engineBefore' = engine
    /\ UNCHANGED <<tick, shutdownVars, filterVars, presetVars, shutdownRest>>

\* stop() called from the event loop
LoopStop ==
    /\ inSlot = NoSlot
    /\ ~quit
    /\ engine' = stop(engine)
    /\ engineLast' = "stop"
    /\ engineBefore' = engine
    /\ UNCHANGED <<tick, shutdownVars, filterVars, presetVars, shutdownRest>>

\* a running timer elapses: its event waits in the event loop, and a later
\* stop() of the timer does not take it back
TimerElapsed(s) ==
    /\ timerOf(engine, s)
    /\ s \notin posted
    /\ ~quit
    /\ posted' = posted \cup {s}
    /\ UNCHANGED <<inSlot, quit, processing, engineVars, filterVars, presetVars, shutdownRest>>

\* the event loop delivers a waiting timer event: the slot is entered and
\* makes its test "if (!m_running) return"
EnterSlot(s) ==
    /\ inSlot = NoSlot
    /\ ~quit
    /\ s \in posted
    /\ posted' = posted \ {s}
    /\ inSlot' = IF engine.m_running THEN s ELSE NoSlot
    /\ engineLast' = s
    /\ engineBefore' = engine
    /\ UNCHANGED <<engine, tick, quit, processing, filterVars, presetVars, shutdownRest>>

\* the slot, past its test, does the processing: calculateFFT(m_lowSoloMode)
\* or detectBPM()
Process ==
    /\ inSlot \in Slots
    /\ processing' = [slot |-> inSlot, running |-> engine.m_running]
    /\ IF inSlot = "onFftTimer"
       THEN /\ \E spectrum \in Spectra :
                  tick' = calculateFFT(engine, spectrum, engine.m_lowSoloMode)
            /\ UNCHANGED engine
       ELSE /\ engine' = [engine EXCEPT !.detectBPM = TRUE]
            /\ UNCHANGED tick
    /\ inSlot' = NoSlot
    /\ UNCHANGED <<engineLast, engineBefore, posted, quit, filterVars, presetVars, shutdownRest>>

\* signalHandler(signum) of the headless application: g_engine->stop() and
\* QCoreApplication::quit(), run on the main thread wherever it is
signalHandler ==
    /\ ~quit
    /\ engine' = stop(engine)
    /\ quit' = TRUE
    /\ engineLast' = "signalHandler"
    /\ engineBefore' = engine
    /\ UNCHANGED <<tick, inSlot, posted, processing, filterVars, presetVars, shutdownRest>>

NextShutdown ==
    \/ LoopStart
    \/ LoopStop
    \/ \E s \in Slots : TimerElapsed(s)
    \/ \E s \in Slots : EnterSlot(s)
    \/ Process
    \/ signalHandler

SpecShutdown == InitShutdown /\ [][NextShutdown]_vars

\* ------------------------------------------------- start() while running
\* The engine and its timers as in SpecTimers, with an input device name
\* in the settings that the user may set or clear at any time: the settings
\* of a running engine need not be the ones start() applied.
InitRestart ==
    /\ FilterUnused
    /\ \E deviceName \in BOOLEAN :
          engine = Sound2OscEngine(deviceName, Thresholds(0, 0))
    /\ tick = NoTick
    /\ engineLast = "init"
    /\ engineBefore = engine
    /\ PresetUnused
    /\ timerList = <<>>
    /\ maxCount = 0
    /\ firstTimerInfo = "none"
    /\ fired = NoFiring
    /\ TimersRestUnused

\* SettingsManager::setInputDeviceName(name)
SetInputDeviceName ==
    /\ maxCount = 0
    /\ \E name \in BOOLEAN :
          /\ engine.inputDeviceName # name
          /\ engine' = [engine EXCEPT !.inputDeviceName = name]
    /\ engineLast' = "setInputDeviceName"
    /\ engineBefore' = engine
    /\ UNCHANGED <<tick, timerVars, filterVars, presetVars, timersRest>>

NextRestart ==
    \/ TimersStart
    \/ TimersStop
    \/ TimePasses
    \/ ActivateTimers
    \/ TimerFft
    \/ TimerBpm
    \/ SetInputDeviceName

SpecRestart == InitRestart /\ [][NextRestart]_vars

\* ================================================================ claims
\* the delay d of the program, cut to whole milliseconds: floor(1000 * d)
WholeMs(d) == d \div SubMs

\* the change of a counter over the last operation
Sent(field) == filter[field] - before[field]

EnteredActive == ~before.m_outputIsActive /\ filter.m_outputIsActive

LeftActive == before.m_outputIsActive /\ ~filter.m_outputIsActive

Bit(b) == IF b THEN 1 ELSE 0

\* C1 (as stated): every on emission is eventually followed by an off
\* emission, whatever the detector does: a filter with more on than off
\* signals always comes back to equal counts.
C1_EveryOnIsFollowedByOff ==
    (filter.onSignalSent > filter.offSignalSent)
        ~> (filter.onSignalSent = filter.offSignalSent)

\* C1 (amended): an on emission is eventually followed by an off emission
\* whenever the max-hold timer is running, and a running off-delay timer
\* eventually either sends off or is cancelled by a new trigger_on.
C1_TimersForceOff ==
    /\ isActive(filter.m_maxHoldTimer)
          ~> (filter.onSignalSent = filter.offSignalSent)
    /\ isActive(filter.m_offDelayTimer)
          ~> (\/ filter.onSignalSent = filter.offSignalSent
              \/ ~isActive(filter.m_offDelayTimer))

\* the max-hold timeout released a filter whose detector had not de-asserted
C1_Witness ==
    /\ last = "onMaxHoldEnd"
    /\ ~isActive(before.m_offDelayTimer)
    /\ filter.onSignalSent = filter.offSignalSent

\* C2: on and off signals alternate, starting with on: the number of on
\* signals minus the number of off signals is 0 or 1, and it is 1 exactly
\* while the output is active.
C2_OnOffBalance ==
    LET d == filter.onSignalSent - filter.offSignalSent
    IN  /\ d \in {0, 1}
        /\ (d = 1) <=> filter.m_outputIsActive

\* the second on signal after a completed on/off pair
C2_Witness ==
    /\ filter.onSignalSent = 2
    /\ filter.offSignalSent = 1
    /\ filter.m_outputIsActive

\* C3: triggerOn() while OnPending or Active changes nothing: no field of
\* the filter, no timer (the running on-delay and max-hold timers keep their
\* remaining time), no signal.
C3_TriggerOnIdempotent ==
    (last = "triggerOn" /\ StateOf(before) \in {"OnPending", "Active"})
        => filter = before

\* triggerOn() arrived while the on-delay had partly elapsed
C3_Witness ==
    /\ last = "triggerOn"
    /\ StateOf(before) = "OnPending"
    /\ before.m_onDelayTimer < ToTimerMs(before.m_onDelay)
    /\ filter = before

\* C4: triggerOff() while Idle or OffPending changes nothing: no field of
\* the filter, no timer (the running off-delay timer keeps its remaining
\* time), no signal.
C4_TriggerOffIdempotent ==
    (last = "triggerOff" /\ StateOf(before) \in {"Idle", "OffPending"})
        => filter = before

\* triggerOff() arrived while the off-delay had partly elapsed
C4_Witness ==
    /\ last = "triggerOff"
    /\ StateOf(before) = "OffPending"
    /\ before.m_offDelayTimer < ToTimerMs(before.m_offDelay)
    /\ filter = before

\* C5: triggerOn() while OffPending stops the off-delay timer and leaves the
\* filter Active; nothing else changes, so neither off nor a second on is
\* sent.
C5_TriggerOnCancelsOff ==
    (last = "triggerOn" /\ StateOf(before) = "OffPending")
        => /\ StateOf(filter) = "Active"
           /\ filter = [before EXCEPT !.m_offDelayTimer = Stopped]

\* triggerOn() arrived while the off-delay timeout was already due
C5_Witness ==
    /\ last = "triggerOn"
    /\ StateOf(before) = "OffPending"
    /\ before.m_offDelayTimer = 0
    /\ StateOf(filter) = "Active"

\* what mute must not influence: everything but m_mute and the OSC sends
Internal(f) == [f EXCEPT !.m_mute = FALSE, !.oscOnSent = 0, !.oscOffSent = 0]

MutedOne == IF filter.m_mute THEN filter ELSE muted

UnmutedOne == IF filter.m_mute THEN muted ELSE filter

\* C6: of two filters that receive the same calls and timeouts, the muted
\* one sends no OSC message, the unmuted one sends its (non-empty) message
\* with every signal, and their states, timers and onSignalSent /
\* offSignalSent signals are the same.
C6_MuteOnlySuppressesWire ==
    /\ Internal(MutedOne) = Internal(UnmutedOne)
    /\ MutedOne.oscOnSent = 0
    /\ MutedOne.oscOffSent = 0
    /\ UnmutedOne.oscOnSent = Bit(UnmutedOne.onMessage) * UnmutedOne.onSignalSent
    /\ UnmutedOne.oscOffSent = Bit(UnmutedOne.offMessage) * UnmutedOne.offSignalSent

\* both filters went through on and off; only the unmuted one sent messages
C6_Witness ==
    /\ UnmutedOne.oscOnSent >= 1
    /\ UnmutedOne.oscOffSent >= 1
    /\ MutedOne.onSignalSent >= 1
    /\ MutedOne.offSignalSent >= 1

\* C7: the on signal is sent exactly on entry to Active: an operation sends
\* one on signal if it takes the output from inactive to active and none
\* otherwise; the on message goes out with it unless the filter is muted (or
\* no on message is configured); the entry is the on-delay timeout of an
\* OnPending filter.
C7_OnExactlyOnEntry ==
    /\ Sent("onSignalSent") = Bit(EnteredActive)
    /\ Sent("oscOnSent") =
          Bit(EnteredActive /\ ~before.m_mute /\ before.onMessage)
    /\ EnteredActive
          => /\ last = "onOnDelayEnd"
             /\ StateOf(before) = "OnPending"
             /\ StateOf(filter) = "Active"

\* an unmuted filter entered Active and sent its on message
C7_Witness ==
    /\ EnteredActive
    /\ Sent("oscOnSent") = 1
    /\ isActive(filter.m_maxHoldTimer)

\* C8: every exit from Active sends the off signal exactly once: an
\* operation sends one off signal if it takes the output from active to
\* inactive and none otherwise (the off message goes out with it unless
\* muted or not configured); the exit is the off-delay or the max-hold
\* timeout, and it leaves neither of the two timers running.
C8_OffExactlyOnExit ==
    /\ Sent("offSignalSent") = Bit(LeftActive)
    /\ Sent("oscOffSent") =
          Bit(LeftActive /\ ~before.m_mute /\ before.offMessage)
    /\ LeftActive
          => /\ last \in {"onMaxHoldEnd", "onOffDelayEnd"}
             /\ ~isActive(filter.m_maxHoldTimer)
             /\ ~isActive(filter.m_offDelayTimer)
    /\ ~filter.m_outputIsActive
          => /\ ~isActive(filter.m_maxHoldTimer)
             /\ ~isActive(filter.m_offDelayTimer)

\* both timeouts were due at once; the off-delay one came first and
\* cancelled the max-hold timer
C8_Witness ==
    /\ last = "onOffDelayEnd"
    /\ before.m_maxHoldTimer = 0
    /\ before.m_offDelayTimer = 0
    /\ Sent("offSignalSent") = 1

\* C9 (as stated): with on_delay = d > 0 and the detector asserting, no on
\* signal is sent before d has elapsed since the first trigger_on, and
\* exactly one is sent once d has elapsed.
C9_NoOnBeforeDelay ==
    /\ (EnteredActive /\ before.m_onDelay > 0)
          => /\ onAt * SubMs >= before.m_onDelay
             /\ Sent("onSignalSent") = 1
    /\ (StateOf(filter) = "OnPending" /\ filter.m_onDelay > 0)
          => /\ sinceOn >= 0
             /\ sinceOn * SubMs <= filter.m_onDelay
             /\ Sent("onSignalSent") = 0

\* C9 (amended): with on_delay = d > 0 and the detector asserting, the on
\* signal is sent exactly once, floor(1000 * d) milliseconds after the first
\* trigger_on: not before, and the repeated calls do not restart the delay.
C9_OnAfterWholeMs ==
    /\ (EnteredActive /\ before.m_onDelay > 0)
          => /\ onAt = WholeMs(before.m_onDelay)
             /\ Sent("onSignalSent") = 1
    /\ (StateOf(filter) = "OnPending" /\ filter.m_onDelay > 0)
          => /\ sinceOn >= 0
             /\ sinceOn <= WholeMs(filter.m_onDelay)
             /\ Sent("onSignalSent") = 0

\* the on signal came two milliseconds after the first trigger_on
C9_Witness ==
    /\ last = "onOnDelayEnd"
    /\ onAt = 2
    /\ onAt = WholeMs(before.m_onDelay)
    /\ Sent("onSignalSent") = 1

\* the detector had de-asserted when the last operation sent the off signal
OffWhileDeasserted == LeftActive /\ offAt >= 0

\* C10 (as stated): with off_delay = d > 0 and the detector de-asserting, no
\* off signal is sent before d has elapsed since the first trigger_off, and
\* exactly one is sent once d has elapsed.
C10_NoOffBeforeDelay ==
    /\ (OffWhileDeasserted /\ before.m_offDelay > 0)
          => /\ offAt * SubMs >= before.m_offDelay
             /\ Sent("offSignalSent") = 1
    /\ (StateOf(filter) = "OffPending" /\ filter.m_offDelay > 0)
          => /\ sinceOff >= 0
             /\ sinceOff * SubMs <= filter.m_offDelay
             /\ Sent("offSignalSent") = 0

\* C10 (amended): with off_delay = d > 0 and the detector de-asserting, the
\* off signal is sent exactly once, floor(1000 * d) milliseconds after the
\* first trigger_off (not before, and the repeated calls do not restart the
\* delay), unless the max-hold timeout releases the filter before that.
C10_OffAfterWholeMs ==
    /\ (OffWhileDeasserted /\ before.m_offDelay > 0)
          => /\ \/ offAt = WholeMs(before.m_offDelay)
                \/ last = "onMaxHoldEnd" /\ offAt <= WholeMs(before.m_offDelay)
             /\ last = "onOffDelayEnd" => offAt = WholeMs(before.m_offDelay)
             /\ Sent("offSignalSent") = 1
    /\ (StateOf(filter) = "OffPending" /\ filter.m_offDelay > 0)
          => /\ sinceOff >= 0
             /\ sinceOff <= WholeMs(filter.m_offDelay)
             /\ Sent("offSignalSent") = 0

\* the off signal came two milliseconds after the first trigger_off
C10_Witness ==
    /\ last = "onOffDelayEnd"
    /\ offAt = 2
    /\ offAt = WholeMs(before.m_offDelay)
    /\ Sent("offSignalSent") = 1

C12_MaxHoldForcesRelease ==
    /\ (filter.m_outputIsActive /\ filter.m_maxHold > 0)
          => /\ isActive(filter.m_maxHoldTimer)
             /\ heldFor >= 0
             /\ heldFor <= WholeMs(filter.m_maxHold)
             /\ heldFor + filter.m_maxHoldTimer = WholeMs(filter.m_maxHold)
    /\ last = "onMaxHoldEnd"
          => /\ LeftActive
             /\ StateOf(filter) = "Idle"
             /\ Sent("offSignalSent") = 1

\* the max-hold timeout of a 2 ms hold released a filter whose detector
\* was asserting to the end
C12_Witness ==
    /\ last = "onMaxHoldEnd"
    /\ WholeMs(before.m_maxHold) = 2
    /\ offAt = -1
    /\ Sent("offSignalSent") = 1
    /\ StateOf(filter) = "Idle"

FftTickRan == engineLast = "onFftTimer" /\ engineBefore.m_running

\* detector d called triggerOn exactly when its level reached its threshold
ComparedLevel(d) ==
    (tick[d].triggerOn = 1) <=> (tick[d].level >= engine.threshold[d])

C15_LowSoloReleasesUpperBands ==
    FftTickRan =>
        /\ engineBefore.m_lowSoloMode
              => /\ \A d \in {"hiMid", "high"} :
                       /\ tick[d].forceRelease
                       /\ tick[d].level = 0
                       /\ tick[d].triggerOff = 1
                       /\ tick[d].triggerOn = 0
                 /\ \A d \in {"bass", "loMid"} :
                       /\ ~tick[d].forceRelease
                       /\ ComparedLevel(d)
        /\ ~engineBefore.m_lowSoloMode
              => \A d \in DetectorSet : ~tick[d].forceRelease

\* a low-solo tick released hiMid although its threshold is 0, while bass
\* fired
C15_Witness ==
    /\ FftTickRan
    /\ engineBefore.m_lowSoloMode
    /\ engine.threshold["hiMid"] = 0
    /\ tick["hiMid"].triggerOff = 1
    /\ tick["high"].triggerOff = 1
    /\ tick["bass"].triggerOn = 1

\* C16: stop() is idempotent: a stop() of a stopped engine changes nothing,
\* and two stop() calls leave the engine as one does.
C16_StopIdempotent ==
    /\ (engineLast = "stop" /\ ~engineBefore.m_running)
          => engine = engineBefore
    /\ stop(stop(engine)) = stop(engine)

\* stop() was called on an engine that had run and had been stopped
C16_Witness ==
    /\ engineLast = "stop"
    /\ ~engineBefore.m_running
    /\ engineBefore.detectBPM
    /\ engineBefore.audioSource = "active"
    /\ engine = engineBefore

\* C17 (as stated): after stop() on a running engine the audio input is
\* stopped and the FFT, BPM and status timers are stopped.
C17_StopStopsAudioAndTimers ==
    (engineLast = "stop" /\ engineBefore.m_running)
        => /\ engine.audioSource # "active"
           /\ ~engine.m_fftTimer
           /\ ~engine.m_bpmTimer
           /\ ~engine.m_statusTimer

UnknownKeys(doc) ==
    [ root     |-> doc.future,
      dsp      |-> doc.dsp.future,
      bpm      |-> doc.bpm.future,
      triggers |-> doc.triggers.future,
      trigger  |-> [d \in DetectorSet |-> doc.triggers.t[d].future],
      filter   |-> [d \in DetectorSet |-> doc.triggers.t[d].filter.future] ]

\* C19 (as stated): a key the program does not know, at any level of the
\* document given to fromState(), is in the document that the next toState()
\* returns, with its value.
C19_UnknownKeysPreserved ==
    (presetLast = "toState" /\ loaded # EmptyDocument)
        => UnknownKeys(saved) = UnknownKeys(loaded)

\* a member is absent or has the type the program reads it as
Typed(v, t) == v.type \in {"undefined", t}

InRange(v, lo, hi) == v.type = "double" => (lo <= v.n /\ v.n <= hi)

\* the document has a member of the wrong type or a number out of range
Invalid(doc) ==
    ~ /\ Typed(doc.lowSoloMode, "bool")
      /\ Typed(doc.dsp, "object")
      /\ Typed(doc.dsp.gain, "double") /\ InRange(doc.dsp.gain, 0, MaxLevel)
      /\ Typed(doc.dsp.compression, "double")
      /\ Typed(doc.dsp.decibel, "bool")
      /\ Typed(doc.dsp.agc, "bool")
      /\ Typed(doc.bpm, "object")
      /\ Typed(doc.bpm.min, "double")
      /\ Typed(doc.bpm.mute, "bool")
      /\ Typed(doc.bpm.osc, "object")
      /\ Typed(doc.triggers, "object")
      /\ \A d \in DetectorSet :
            LET t == doc.triggers.t[d]
            IN  /\ Typed(t, "object")
                /\ Typed(t.threshold, "double")
                /\ InRange(t.threshold, 0, MaxLevel)
                /\ Typed(t.filter, "object")
                /\ Typed(t.filter.onDelay, "double")
                /\ InRange(t.filter.onDelay, 0, MaxLevel)
                /\ Typed(t.filter.offDelay, "double")
                /\ Typed(t.filter.maxHold, "double")

\* C20 (as stated): fromState() of a malformed or out-of-range document
\* fails and leaves the engine's configuration as it was.
C20_InvalidDocumentRejected ==
    (presetLast = "fromState" /\ Invalid(loaded))
        => config = configBefore

\* ---------------------------------------------------------------- C21
\* what fromState(loaded) makes of the configuration it started from
WholePreset == fromState(configBefore, loaded)

C23_FftTickBeforeBpmTick ==
    fired.id = "bpm" => ~fired.fftNotLater

C22_EmissionsInDetectorOrder ==
    \A i \in 1..Len(wire), j \in 1..Len(wire) :
        i < j => indexOf(wire[i]) <= indexOf(wire[j])

\* ---------------------------------------------------------------- C25
\* the n most recent of the samples s, in push order, behind zeros if
\* fewer than n were pushed
MostRecent(s, n) ==
    [i \in 1..n |-> IF Len(s) - n + i >= 1 THEN s[Len(s) - n + i] ELSE 0]

\* C25: after any sequence of pushes, also pushes that overrun the ring,
\* snapshot_last(N) is the N most recently pushed samples in push order,
\* with a prefix of zeros when fewer than N samples were ever pushed.
C25_SnapshotIsMostRecent ==
    frame # <<>> => frame = MostRecent(pushed, Len(frame))

\* a snapshot of a whole frame was taken after the ring was overrun, and
\* the frame differs from the oldest samples the ring still holds
C25_Witness ==
    /\ Len(pushed) > Capacity
    /\ Len(frame) = FrameSize
    /\ frame # snapshot_last_fromOldest(ring, FrameSize)

\* ---------------------------------------------------------------- C26
\* C26: the shared send queue never holds more messages than its capacity;
\* a message queued on a full queue is kept, at the back, and the oldest
\* queued message is the one dropped.
C26_QueueBoundedDropsOldest ==
    /\ Len(sendQueue.messages) <= QueueCapacity
    /\ queueLast = "enqueue"
          => /\ sendQueue.messages[Len(sendQueue.messages)].number
                    = nextMessage - 1
             /\ Len(queueBefore.messages) = QueueCapacity
                    => /\ SubSeq(sendQueue.messages, 1, QueueCapacity - 1)
                            = Tail(queueBefore.messages)
                       /\ sendQueue.dropped = queueBefore.dropped + 1
             /\ Len(queueBefore.messages) < QueueCapacity
                    => /\ sendQueue.messages
                            = Append(queueBefore.messages,
                                     sendQueue.messages[Len(sendQueue.messages)])
                       /\ sendQueue.dropped = queueBefore.dropped

\* a message was queued on a full queue for the second time
C26_Witness ==
    /\ queueLast = "enqueue"
    /\ Len(queueBefore.messages) = QueueCapacity
    /\ sendQueue.dropped = 2

\* ---------------------------------------------------------------- C27
\* C27: a packet created by the OSC writer parses back to a valid message
\* with the writer's address and the writer's arguments: as many, in the
\* same order, of the same types and with the same values.
C27_PacketRoundTrips ==
    message # <<>>
        => /\ message[1].valid
           /\ message[1].path = writer.path
           /\ message[1].arguments = writer.args

\* a packet with a string of four bytes and a negative integer was parsed
C27_Witness ==
    /\ message # <<>>
    /\ message[1].valid
    /\ Len(message[1].arguments) = MaxArgs
    /\ message[1].arguments[1] = StringArg(<<104, 101, 108, 108>>)
    /\ message[1].arguments[2] = Int32Arg(-1)

\* ---------------------------------------------------------------- C28
\* a call that leaves the store clean: a save() that succeeded, a load()
\* that read the config file
cleans(c) == (c.op = "save" /\ c.result) \/ (c.op = "load" /\ c.result /\ c.existed)

\* C28 as stated: isDirty() is false right after a successful load() and
\* right after a successful save(), and true after any setValue() until the
\* next successful save() or load().
C28_DirtyFlagAsStated ==
    /\ call.op \in {"load", "save"} /\ call.result => ~store.m_dirty
    /\ call.op = "setValue" => store.m_dirty
    /\ call.op \in {"getValue", "load", "save"} /\ call.dirtyBefore /\ ~call.result => store.m_dirty

\* C28: isDirty() is false right after a successful save() and right after
\* a load() that read the config file; it is true after a load() that found
\* no file, and true after a setValue() whose key has a non-empty piece,
\* until the next successful save(), load() of the file, or destruction.
C28_DirtyFlag ==
    /\ cleans(call) => ~store.m_dirty
    /\ call.op = "load" /\ call.result /\ ~call.existed => store.m_dirty
    /\ call.op = "setValue" /\ splitKey(call.key) # <<>> => store.m_dirty
    /\ call.op \in {"setValue", "getValue", "load", "save"} /\ call.dirtyBefore /\ ~cleans(call) => store.m_dirty

\* a load() found no file, returned true and left the store dirty
C28_Witness ==
    /\ call.op = "load"
    /\ call.result
    /\ ~call.existed
    /\ ~call.dirtyBefore
    /\ store.m_dirty

\* ---------------------------------------------------------------- C29
\* QVariant's comparison: numbers by their value, the rest by type and value
sameValue(a, b) ==
    IF a.type \in {"Int", "Double"} /\ b.type \in {"Int", "Double"} THEN a.n = b.n ELSE a = b

\* C29: getValue(k, d) returns the value lastStored stored for the key path k by
\* setValue, also in a new instance after save() and load(), and d when no
\* value is stored for k.
C29_GetValueReturnsStored ==
    call.op = "getValue" /\ splitKey(call.key) # <<>>
        => LET lastStored == stored.memory[splitKey(call.key)]
           IN  IF lastStored = <<>> THEN call.value = call.default
               ELSE sameValue(call.value, lastStored[1])

\* ---------------------------------------------------------------- C30
\* C30: during and after a save(), failed or not, the config file holds
\* the whole content it had before the save() or the whole new content.
C30_SaveAtomic ==
    \/ disk.file = saving.previous
    \/ disk.file = Whole(saving.data)

\* ---------------------------------------------------------------- C31
\* C31: a public method of JsonConfigStore reads or writes m_root and
\* m_dirty only while its thread holds the store's mutex.
C31_MembersUnderMutex ==
    lastAccess # <<>> => lastAccess[1].holder = lastAccess[1].thread

\* ---------------------------------------------------------------- C32
\* C32: once migrate() has run, also with a part failed, the completion
\* marker is set, every later hasLegacySettings() answers false, and no
\* later application start migrates again.
C32_MigratesOnce ==
    /\ migrations.runs <= 1
    /\ migrations.runs > 0 => migrationCompleted(markerFile)
    /\ hasLegacy # <<>> /\ hasLegacy[1].migrated => ~hasLegacy[1].answer

\* a migration with a failed part is behind, the legacy file is still
\* there, and a later start has asked again
C32_Witness ==
    /\ migrations.runs = 1
    /\ ~migrations.result
    /\ migrations.starts >= 2
    /\ legacyFile.exists
    /\ legacyFile.formatVersion > 0
    /\ hasLegacy # <<>>
    /\ hasLegacy[1].migrated
    /\ mainAt = "running"

\* ---------------------------------------------------------------- C33
\* C33: a save with isAutosave = true leaves the current preset path and
\* the current preset name as they were before the call.
C33_AutosaveKeepsCurrentPreset ==
    saveCall.op \in {"savePresetFile", "saveAutosave"} /\ saveCall.isAutosave
        => /\ currentPresetPath(presetManager) = currentPresetPath(managerBefore)
           /\ currentPresetName(presetManager) = currentPresetName(managerBefore)

\* an autosave succeeded while another preset, with unsaved changes, was current
C33_Witness ==
    /\ saveCall.op = "saveAutosave"
    /\ saveCall.result
    /\ currentPresetName(managerBefore) = "a"
    /\ managerBefore.m_hasUnsavedChanges
    /\ presetManager.m_hasUnsavedChanges

\* ---------------------------------------------------------------- C34
\* C34: a triggerOff() while the filter is OnPending stops the on-delay
\* timer and takes the filter to Idle; it sends no on and no off signal and
\* no OSC message, and changes nothing else.
C34_TriggerOffCancelsOnDelay ==
    (last = "triggerOff" /\ StateOf(before) = "OnPending")
        => /\ StateOf(filter) = "Idle"
           /\ filter = [before EXCEPT !.m_onDelayTimer = Stopped]

\* triggerOff() arrived while the on-delay had partly elapsed
C34_Witness ==
    /\ last = "triggerOff"
    /\ StateOf(before) = "OnPending"
    /\ before.m_onDelayTimer > 0
    /\ before.m_onDelayTimer < ToTimerMs(before.m_onDelay)
    /\ StateOf(filter) = "Idle"

\* ---------------------------------------------------------------- C35
\* C35: the on-delay timer is pending only while the output is inactive,
\* the off-delay and the max-hold timer only while it is active; so the
\* on-delay and the off-delay timer are never pending together, and no
\* Q_ASSERT of the three timer slots fails.
C35_TimersMatchOutput ==
    /\ isActive(filter.m_onDelayTimer) => ~filter.m_outputIsActive
    /\ isActive(filter.m_offDelayTimer) => filter.m_outputIsActive
    /\ isActive(filter.m_maxHoldTimer) => filter.m_outputIsActive
    /\ ~(isActive(filter.m_onDelayTimer) /\ isActive(filter.m_offDelayTimer))
    /\ ~filter.qassertFailed

\* the off-delay and the max-hold timer are pending together, after a
\* second on signal
C35_Witness ==
    /\ filter.m_outputIsActive
    /\ isActive(filter.m_offDelayTimer)
    /\ isActive(filter.m_maxHoldTimer)
    /\ filter.onSignalSent = 2


\* C36: FFT and BPM processing run only while the engine is running: no
\* tick is processed before the first start() and none after a stop() has
\* returned until the next start(), a timer event that was waiting when
\* stop() was called included.
C36_ProcessingOnlyWhileRunning ==
    processing.slot # NoSlot => processing.running

\* the same for the engine of an application in which no signal arrived
ProcessingWhileRunningUnlessSignalled ==
    (processing.slot # NoSlot /\ ~quit) => processing.running

\* a timer event that waited while stop() ran is delivered to its slot
LateEventDelivered ==
    ~( /\ engineLast \in Slots
       /\ ~engineBefore.m_running
       /\ inSlot = NoSlot )


\* C37: start() is idempotent: a start() on an engine that is running
\* changes nothing, the settings are not applied again (the audio source is
\* as it was) and the timers are not restarted (their deadlines are as
\* they were).
C37_StartIdempotent ==
    [][(TimersStart /\ engine.m_running)
          => (engine' = engine /\ timerList' = timerList)]_vars

\* start() was called on a running engine whose settings name an input
\* device that was not applied, and whose timers were part-way to their
\* deadlines
C37_Witness ==
    /\ engineLast = "start"
    /\ engineBefore.m_running
    /\ engineBefore.inputDeviceName
    /\ engineBefore.audioSource = "none"
    /\ engine = engineBefore
    /\ Len(timerList) = 2
    /\ \A i \in 1..2 : timerList[i].timeout < interval(timerList[i].id)


\* C38: fromState changes only the settings of the sections the document
\* holds: without "lowSoloMode" the low-solo mode, without "dsp" the four
\* spectrum settings, without "bpm" the BPM settings, without "triggers"
\* all triggers, and without the entry of a trigger that trigger's
\* threshold and delays are after the call what they were before it.
C38_AbsentSectionsUnchanged ==
    presetLast = "fromState" =>
        /\ ~contains(loaded.lowSoloMode)
              => config.m_lowSoloMode = configBefore.m_lowSoloMode
        /\ ~contains(loaded.dsp)
              => /\ config.gain = configBefore.gain
                 /\ config.compression = configBefore.compression
                 /\ config.decibel = configBefore.decibel
                 /\ config.agc = configBefore.agc
        /\ ~contains(loaded.bpm)
              => /\ config.minBPM = configBefore.minBPM
                 /\ config.bpmMute = configBefore.bpmMute
                 /\ config.bpmOsc = configBefore.bpmOsc
        /\ \A d \in DetectorSet :
              \/ ~contains(loaded.triggers)
              \/ ~contains(toObject(loaded.triggers, EmptyTriggersObject).t[d])
              => config.triggers[d] = configBefore.triggers[d]

\* a document with a triggers object that has no "bass" entry was read by
\* an engine whose bass trigger was not at its defaults: the other
\* sections and triggers changed, the bass trigger did not
C38_Witness ==
    /\ presetLast = "fromState"
    /\ loaded.triggers.type = "object"
    /\ ~contains(loaded.triggers.t["bass"])
    /\ contains(loaded.triggers.t["high"])
    /\ configBefore.triggers["bass"] # TriggerConfig(0, 0, 0, 0)
    /\ config.triggers["bass"] = configBefore.triggers["bass"]
    /\ config.triggers["high"] # configBefore.triggers["high"]
    /\ config.gain # configBefore.gain

\* C39: a load() that fails, for want of a file path, because the file
\* cannot be opened or because its content is no JSON object, leaves
\* m_root and m_dirty as they were.
C39_FailedLoadChangesNothing ==
    [][(StoreLoad /\ ~call'.result) => store' = store]_vars

\* a load() failed on an instance that held unsaved values while the file
\* existed: its values and its dirty flag are still there
C39_Witness ==
    /\ call.op = "load"
    /\ ~call.result
    /\ call.existed
    /\ call.dirtyBefore
    /\ store.m_dirty
    /\ store.m_root # ensureStructure

\* the same on a file whose content does not parse
ParseErrorSeen ==
    ~(C39_Witness /\ disk.file = Partial)

\* a load() without a file path failed
NoPathSeen ==
    ~(call.op = "load" /\ ~call.result /\ store.m_filePath = "")

====
